---- MODULE Spec2Model ----
(***************************************************************************)
(* A model of the analysis pipeline of bril-nw: control-flow graph         *)
(* construction, the iterative dominator computation, the dominator tree   *)
(* and dominance frontier (src/bril-nw/src/cfg/graph.rs) and the SSA       *)
(* builder (src/bril-nw/src/ssa.rs).                                       *)
(*                                                                         *)
(* HashMap<usize, Vec<usize>> maps are modelled as total functions over    *)
(* the block ids whose value is the empty sequence for an absent key: the  *)
(* CFG constructor only ever creates a predecessor entry together with its *)
(* first element, so "no entry" and "no predecessor" coincide.             *)
(***************************************************************************)
EXTENDS Integers, Sequences, FiniteSets, TLC

\* Largest number of basic blocks of a function.
MaxBlocks == 4

\* Largest number of jump/branch labels in a function, over all its blocks.
MaxLabels == 3

VARIABLES
    numBlocks,        \* blocks.len() of the function being compiled
    blocks,           \* FunctionBlocks.blocks: block id i is blocks[i + 1]
    pc,               \* position of the driver (bril-runner main.rs)
    predecessors,     \* ControlFlowGraph.predecessors
    successors,       \* ControlFlowGraph.successors
    dominators,       \* find_dominators: the local `dominators`
    should_continue,  \* find_dominators: the local `should_continue`
    dom_tree,         \* the DominatorTree handed to the later phases
    all_vars,             \* SSABuilder.all_vars, without the types
    staged_phi_nodes,     \* SSABuilder.staged_phi_nodes
    rename_vars_stacks,   \* SSABuilder.rename_vars_stacks
    rename_failures,      \* SSABuilder.rename_failures
    function_instrs,      \* Function.instrs of the function being loaded
    next_instr,           \* FunctionBlocksLoader::load: position of its loop
    cur_block_instrs,     \* FunctionBlocksLoader::load: the local of that name
    already_used_labels,  \* FunctionBlocksLoader.already_used_labels
    load_errors,          \* FunctionBlocksLoader.load_errors
    env,                  \* LocalValueNumbering.env
    table,                \* LocalValueNumbering.table
    names,                \* LocalValueNumbering.names
    cur_instr,            \* LocalValueNumbering::run: position of its loop
    work_list,            \* ReachingDefinitions::analyze: the local `work_list`
    inputs,               \* ReachingDefinitions::analyze: the local `inputs`
    outputs,              \* ReachingDefinitions::analyze: the local `outputs`
    json_instrs,          \* load_bril_function: the JSON array `instrs`
    loaded_instrs,        \* load_bril_function: the local `loaded_instrs`
    bril_error            \* the BrilLoadError load_bril_function returned

vars == <<numBlocks, blocks, pc, predecessors, successors, dominators,
          should_continue, dom_tree, all_vars, staged_phi_nodes,
          rename_vars_stacks, rename_failures, function_instrs, next_instr,
          cur_block_instrs, already_used_labels, load_errors, env, table,
          names, cur_instr, work_list, inputs, outputs, json_instrs,
          loaded_instrs, bril_error>>

\* The function being loaded and the fields and locals of its loader.
loader == <<function_instrs, next_instr, cur_block_instrs, already_used_labels,
            load_errors>>

\* The fields of the SSA builder.
ssa_builder == <<all_vars, staged_phi_nodes, rename_vars_stacks, rename_failures>>

\* The fields of the local value numbering, the locals of the reaching
\* definitions analysis and of the JSON loader.
passes == <<env, table, names, cur_instr, work_list, inputs, outputs,
            json_instrs, loaded_instrs, bril_error>>

BlockIds == 0 .. (MaxBlocks - 1)

\* all_block_ids of the CFG: the ids of the function's blocks, in order.
AllBlockIds == 0 .. (numBlocks - 1)

Range(s) == {s[k] : k \in 1 .. Len(s)}

(***************************************************************************)
(* Instructions (bril/types.rs).  One record shape for the four variants:  *)
(* unused fields are empty.                                                *)
(***************************************************************************)
new_label(name) ==
    [shape |-> "Label", op |-> "", dest |-> "", args |-> <<>>,
     labels |-> <<>>, label |-> name]

new_effect(op, args, labels) ==
    [shape |-> "Effect", op |-> op, dest |-> "", args |-> args,
     labels |-> labels, label |-> ""]

new_const(dest) ==
    [shape |-> "Const", op |-> "const", dest |-> dest, args |-> <<>>,
     labels |-> <<>>, label |-> ""]

new_value(op, dest, args, labels) ==
    [shape |-> "Value", op |-> op, dest |-> dest, args |-> args,
     labels |-> labels, label |-> ""]

is_instr(i) == i.shape # "Label"

is_label(i) == i.shape = "Label"

is_jump(i) == is_instr(i) /\ i.op \in {"br", "jmp"}

is_ret(i) == is_instr(i) /\ i.op = "ret"

get_jump_target(i) == i.labels

\* BLOCK_NAME_PFX and the name add_block gives a block: its leading label,
\* or block_<id>.
BlockName(id, instrs) ==
    IF instrs # <<>> /\ is_label(instrs[1])
    THEN instrs[1].label
    ELSE "block_" \o ToString(id)

get_block_name(id) == BlockName(id, blocks[id + 1].instrs)

\* block_name_to_id lookup: the id of the block called `name`, or -1.
get_block_idx_by_name(name) ==
    IF \E id \in AllBlockIds : get_block_name(id) = name
    THEN CHOOSE id \in AllBlockIds : get_block_name(id) = name
    ELSE -1

(***************************************************************************)
(* ControlFlowGraph::create_from_basic_blocks (cfg/graph.rs).              *)
(***************************************************************************)
EmptyEdges == [id \in BlockIds |-> <<>>]

\* The loop with a label that was already resolved not pushed again.
RECURSIVE target_idxs_distinct(_)
target_idxs_distinct(targets) ==
    IF targets = <<>> THEN <<>>
    ELSE LET idx  == get_block_idx_by_name(Head(targets))
             rest == target_idxs_distinct(Tail(targets))
         IN  (IF idx # -1 /\ idx \notin Range(rest) THEN <<idx>> ELSE <<>>) \o rest

\* The `for target in targets` loop: the ids of the labels that name a block,
\* in label order; a label that names no block adds nothing.
RECURSIVE target_idxs(_)
target_idxs(targets) ==
    IF targets = <<>> THEN <<>>
    ELSE LET idx == get_block_idx_by_name(Head(targets))
         IN  (IF idx # -1 THEN <<idx>> ELSE <<>>) \o target_idxs(Tail(targets))

\* What the else branch of the loop (lines 67-69, `// TODO: bad`) records of
\* the labels that name no block: the branch is empty.
RECURSIVE reported_targets(_)
reported_targets(targets) ==
    IF targets = <<>> THEN <<>>
    ELSE LET idx == get_block_idx_by_name(Head(targets))
         IN  (IF idx # -1 THEN <<>> ELSE <<>>) \o reported_targets(Tail(targets))

\* The loop with a block pushed only on a list that does not hold it yet.
RECURSIVE add_predecessors_once(_, _, _)
add_predecessors_once(preds, idxs, id) ==
    IF idxs = <<>> THEN preds
    ELSE add_predecessors_once(
             [preds EXCEPT ![Head(idxs)] =
                 IF id \in Range(@) THEN @ ELSE Append(@, id)],
             Tail(idxs), id)

\* The "add predecessors" loop: `id` is pushed on the predecessor list of each
\* target in turn.
RECURSIVE add_predecessors(_, _, _)
add_predecessors(preds, idxs, id) ==
    IF idxs = <<>> THEN preds
    ELSE add_predecessors(
             [preds EXCEPT ![Head(idxs)] = Append(@, id)], Tail(idxs), id)

\* The iteration without the branch for ret: a block that ends in ret falls
\* through like any block that does not end in a jump.
create_edges_of_block_without_ret(cfg, i) ==
    LET instrs == blocks[i + 1].instrs
        last   == instrs[Len(instrs)]
        id     == blocks[i + 1].id
    IN  IF is_jump(last)
        THEN LET idxs == target_idxs(get_jump_target(last))
             IN  [pred |-> add_predecessors(cfg.pred, idxs, id),
                  succ |-> [cfg.succ EXCEPT ![id] = idxs]]
        ELSE IF i < Len(blocks) - 1
        THEN [pred |-> add_predecessors(cfg.pred, <<i + 1>>, id),
              succ |-> [cfg.succ EXCEPT ![id] = <<i + 1>>]]
        ELSE cfg

\* One iteration of `for i in 0..blocks.len()` on cfg = [pred, succ].
create_edges_of_block(cfg, i) ==
    LET instrs == blocks[i + 1].instrs
        last   == instrs[Len(instrs)]
        id     == blocks[i + 1].id
    IN  IF is_jump(last)
        THEN LET idxs == target_idxs(get_jump_target(last))
             IN  [pred |-> add_predecessors(cfg.pred, idxs, id),
                  succ |-> [cfg.succ EXCEPT ![id] = idxs]]
        ELSE IF is_ret(last)
        THEN cfg
        ELSE IF i < Len(blocks) - 1
        THEN [pred |-> add_predecessors(cfg.pred, <<i + 1>>, id),
              succ |-> [cfg.succ EXCEPT ![id] = <<i + 1>>]]
        ELSE cfg

RECURSIVE create_edges_from(_, _)
create_edges_from(cfg, i) ==
    IF i >= Len(blocks) THEN cfg
    ELSE create_edges_from(create_edges_of_block(cfg, i), i + 1)

create_from_basic_blocks ==
    create_edges_from([pred |-> EmptyEdges, succ |-> EmptyEdges], 0)

(***************************************************************************)
(* ControlFlowGraph::find_dominators (cfg/graph.rs).                       *)
(***************************************************************************)
\* Lines 120-131: {0} for block 0, every block id for the others.
InitialDominators ==
    [id \in BlockIds |->
        IF id \notin AllBlockIds THEN {}
        ELSE IF id = 0 THEN {0} ELSE AllBlockIds]

\* Lines 152-168: the fold of the predecessors' current sets by intersection.
RECURSIVE intersect_estimates(_, _, _)
intersect_estimates(dom, preds, acc) ==
    IF preds = <<>> THEN acc
    ELSE intersect_estimates(dom, Tail(preds), acc \cap dom[Head(preds)])

block_pred_dominator_intersection(dom, block_id) ==
    LET preds == predecessors[block_id]
    IN  IF preds = <<>> THEN {}
        ELSE intersect_estimates(dom, Tail(preds), dom[Head(preds)])

\* The body of the loop with the comparison of line 179 made before the
\* insertion of line 171.
dominators_of_block_compared_early(st, block_id) ==
    IF predecessors[block_id] = <<>> THEN st
    ELSE LET intersection == block_pred_dominator_intersection(st.dom, block_id)
         IN  [dom     |-> [st.dom EXCEPT ![block_id] = intersection \cup {block_id}],
              changed |-> st.changed \/ st.dom[block_id] # intersection]

\* The body of the loop without the `continue` of lines 146-148: a block
\* without predecessors is recomputed from the empty intersection.
dominators_of_block_without_continue(st, block_id) ==
    LET new == block_pred_dominator_intersection(st.dom, block_id) \cup {block_id}
    IN  [dom     |-> [st.dom EXCEPT ![block_id] = new],
         changed |-> st.changed \/ st.dom[block_id] # new]

\* Lines 144-184: the body of `for block_id in &self.all_block_ids` on
\* st = [dom, changed].  Every block with a predecessor entry is recomputed,
\* block 0 included.
dominators_of_block(st, block_id) ==
    IF predecessors[block_id] = <<>> THEN st
    ELSE LET new == block_pred_dominator_intersection(st.dom, block_id)
                        \cup {block_id}
         IN  [dom     |-> [st.dom EXCEPT ![block_id] = new],
              changed |-> st.changed \/ st.dom[block_id] # new]

RECURSIVE dominators_pass_from(_, _)
dominators_pass_from(st, block_id) ==
    IF block_id >= numBlocks THEN st
    ELSE dominators_pass_from(dominators_of_block(st, block_id), block_id + 1)

\* One pass of `while should_continue`.
dominators_pass(dom) == dominators_pass_from([dom |-> dom, changed |-> FALSE], 0)

(***************************************************************************)
(* Strict and immediate dominators, dominator tree, dominance frontier     *)
(* (cfg/graph.rs).                                                         *)
(***************************************************************************)
retain_only_strict_dominators(dom) ==
    [id \in BlockIds |-> dom[id] \ {id}]

\* The predecessors of `next` that are not in the closed set, in list order.
RECURSIVE open_predecessors(_, _)
open_predecessors(preds, closed_set) ==
    IF preds = <<>> THEN <<>>
    ELSE (IF Head(preds) \in closed_set THEN <<>> ELSE <<Head(preds)>>)
             \o open_predecessors(Tail(preds), closed_set)

\* Lines 220-235: the `while !open_set.is_empty()` loop and the fallback 0.
RECURSIVE immediate_dominator_search(_, _, _)
immediate_dominator_search(open_set, closed_set, block_dominators) ==
    IF open_set = <<>> THEN 0
    ELSE LET next == Head(open_set)
         IN  IF next \in block_dominators THEN next
             ELSE immediate_dominator_search(
                      Tail(open_set)
                          \o open_predecessors(predecessors[next],
                                               closed_set \cup {next}),
                      closed_set \cup {next},
                      block_dominators)

\* Lines 212-218: every predecessor of the block is queued, unfiltered; the
\* block itself starts in the closed set.
find_immediate_dominator(block_id, block_dominators) ==
    immediate_dominator_search(predecessors[block_id], {block_id},
                               block_dominators)

\* A map over the blocks other than 0; block 0 has no entry.
find_immediate_dominators(strict) ==
    [id \in AllBlockIds \ {0} |-> find_immediate_dominator(id, strict[id])]

create_dominator_tree(dom) ==
    LET strict_dominators    == retain_only_strict_dominators(dom)
        immediate_dominators == find_immediate_dominators(strict_dominators)
    IN  [p \in BlockIds |->
            {c \in DOMAIN immediate_dominators : immediate_dominators[c] = p}]

get_dominance_frontier(dominator_tree, block_id) ==
    LET dominated_nodes == dominator_tree[block_id] \cup {block_id}
        all_successors_of_dominated ==
            UNION {Range(successors[n]) : n \in dominated_nodes}
    IN  all_successors_of_dominated \ dominated_nodes

(***************************************************************************)
(* The SSA builder (ssa.rs).  Result types are left out: they only label   *)
(* the staged phi instruction.                                             *)
(***************************************************************************)
\* The names the functions assign, and the parameters of the function.
Variables == {"x", "y"}

FunctionArgs == {"a"}

VarNames == Variables \cup FunctionArgs

\* Every ordering of a finite set: the orders a HashSet or HashMap may be
\* iterated in.
Orderings(S) ==
    {q \in [1 .. Cardinality(S) -> S] :
        \A i, j \in 1 .. Cardinality(S) : q[i] = q[j] => i = j}

\* Itertools::sorted on block ids, and the iteration order of a BTreeSet.
RECURSIVE sorted(_)
sorted(S) ==
    IF S = {} THEN <<>>
    ELSE LET least == CHOOSE x \in S : \A y \in S : x <= y
         IN  <<least>> \o sorted(S \ {least})

get_dest(instr) == IF instr.shape \in {"Const", "Value"} THEN instr.dest ELSE ""

has_args(instr) == instr.shape \in {"Value", "Effect"}

\* SSAStack.
SSAStack_new == [stack |-> <<>>, next_name_id |-> 1]

is_empty(s) == Len(s.stack) = 0

peek(s) == s.stack[Len(s.stack)]

create_new_name(s, old_name) ==
    [stack        |-> Append(s.stack, old_name \o "." \o ToString(s.next_name_id)),
     next_name_id |-> s.next_name_id + 1]

\* A stack that was never asked for is the one get_or_create_arg_name_stack
\* would create.
NoStacks == [v \in VarNames |-> SSAStack_new]

NoPhiNodes == [id \in BlockIds |-> << >>]

\* find_all_vars: for each name, the blocks with an instruction that has it
\* as destination.
find_all_vars(bs) ==
    [v \in VarNames |->
        {bs[k].id : k \in {k \in 1 .. Len(bs) :
            \E n \in 1 .. Len(bs[k].instrs) : get_dest(bs[k].instrs[n]) = v}}]

\* insert_phi_nodes, lines 115-148, for one variable: the blocks that get a
\* phi for it.  `queue` is phi_insertion_candidate_blocks; `staged` the
\* blocks that already hold a phi for the variable.
RECURSIVE phi_blocks(_, _)
phi_blocks(queue, staged) ==
    IF queue = <<>> THEN staged
    ELSE LET dom_frontier == get_dominance_frontier(dom_tree, Head(queue))
         IN  phi_blocks(Tail(queue) \o sorted(dom_frontier \ staged),
                        staged \cup dom_frontier)

new_phi(var) == new_value("phi", var, <<>>, <<>>)

\* insert_phi_nodes: `order` gives, for each variable, the order its
\* declaring blocks are queued in.
insert_phi_nodes(vars_decl, order) ==
    [id \in BlockIds |->
        [v \in {v \in VarNames : id \in phi_blocks(order[v], {})} |-> new_phi(v)]]

\* Lines 189-204: the arguments are replaced from the first on; the loop is
\* left at the first argument whose stack is empty.
RECURSIVE rename_args(_, _)
rename_args(stacks, args) ==
    IF args = <<>> THEN [args |-> <<>>, failed |-> <<>>]
    ELSE IF is_empty(stacks[Head(args)])
    THEN [args |-> args, failed |-> <<Head(args)>>]
    ELSE LET rest == rename_args(stacks, Tail(args))
         IN  [args   |-> <<peek(stacks[Head(args)])>> \o rest.args,
              failed |-> rest.failed]

\* Lines 171-186: each phi staged in the block gets a new destination.
rename_phi_dests(st, block_id) ==
    LET phi_vars == DOMAIN st.phis[block_id]
        stacks   == [v \in VarNames |->
                        IF v \in phi_vars THEN create_new_name(st.stacks[v], v)
                        ELSE st.stacks[v]]
    IN  [st EXCEPT
            !.stacks = stacks,
            !.phis[block_id] =
                [v \in phi_vars |-> [st.phis[block_id][v] EXCEPT !.dest = peek(stacks[v])]]]

\* Lines 189-223: one iteration of `for instr in &mut block.instrs`.
rename_instr(st, block_id, n) ==
    LET instr    == st.blocks[block_id + 1].instrs[n]
        renamed  == IF has_args(instr) THEN rename_args(st.stacks, instr.args)
                    ELSE [args |-> instr.args, failed |-> <<>>]
        old_dest == get_dest(instr)
        stacks   == IF old_dest # ""
                    THEN [st.stacks EXCEPT ![old_dest] = create_new_name(@, old_dest)]
                    ELSE st.stacks
        new_instr == [instr EXCEPT
                         !.args = renamed.args,
                         !.dest = IF old_dest # "" THEN peek(stacks[old_dest]) ELSE @]
    IN  [st EXCEPT
            !.blocks[block_id + 1].instrs[n] = new_instr,
            !.stacks = stacks,
            !.failures = IF renamed.failed # <<>>
                         THEN Append(@, <<block_id, renamed.failed[1]>>)
                         ELSE @]

RECURSIVE rename_instrs_from(_, _, _)
rename_instrs_from(st, block_id, n) ==
    IF n > Len(st.blocks[block_id + 1].instrs) THEN st
    ELSE rename_instrs_from(rename_instr(st, block_id, n), block_id, n + 1)

\* Lines 231-255: every phi staged in a successor gets the current name of
\* its variable and the name of this block; peek().unwrap() aborts when the
\* variable has no current name.
RECURSIVE fill_successor_phis(_, _, _)
fill_successor_phis(st, block_id, succs) ==
    IF succs = <<>> \/ st.panicked THEN st
    ELSE LET successor_id == Head(succs)
             phi_vars     == DOMAIN st.phis[successor_id]
         IN  IF \E v \in phi_vars : is_empty(st.stacks[v])
             THEN [st EXCEPT !.panicked = TRUE]
             ELSE fill_successor_phis(
                      [st EXCEPT !.phis[successor_id] =
                          [v \in phi_vars |->
                              [st.phis[successor_id][v] EXCEPT
                                  !.args = Append(@, peek(st.stacks[v])),
                                  !.labels = Append(@,
                                      BlockName(block_id,
                                                st.blocks[block_id + 1].instrs))]]],
                      block_id, Tail(succs))

\* num_names_created at the end of the call: one per phi staged in the block
\* and one per instruction of the block with that destination.
num_names_created(st, block_id, v) ==
    (IF v \in DOMAIN st.phis[block_id] THEN 1 ELSE 0)
        + Cardinality({n \in 1 .. Len(st.blocks[block_id + 1].instrs) :
                          get_dest(st.blocks[block_id + 1].instrs[n]) = v})

\* The unwinding left out: every name stays on its stack.
truncate_stacks_pops_nothing(stacks, created) == stacks

\* Lines 271-275.
truncate_stacks(stacks, created) ==
    [v \in VarNames |->
        LET new_stack_len == IF Len(stacks[v].stack) >= created[v]
                             THEN Len(stacks[v].stack) - created[v] ELSE 0
        IN  [stacks[v] EXCEPT !.stack = SubSeq(@, 1, new_stack_len)]]

\* rename_vars_rec on st = [blocks, phis, stacks, failures, panicked]; the
\* unwrap of line 164 aborts when the function has no such block.
RECURSIVE rename_vars_rec(_, _)
RECURSIVE rename_dominated(_, _)
rename_vars_rec(st, block_id) ==
    IF st.panicked THEN st
    ELSE IF block_id >= Len(st.blocks) THEN [st EXCEPT !.panicked = TRUE]
    ELSE LET created  == [v \in VarNames |-> num_names_created(st, block_id, v)]
             with_phi == rename_phi_dests(st, block_id)
             renamed  == rename_instrs_from(with_phi, block_id, 1)
             filled   == fill_successor_phis(renamed, block_id, successors[block_id])
             done     == rename_dominated(filled, sorted(dom_tree[block_id]))
         IN  IF done.panicked THEN done
             ELSE [done EXCEPT !.stacks = truncate_stacks(@, created)]

\* Lines 267-269.
rename_dominated(st, sorted_dominated_nodes) ==
    IF sorted_dominated_nodes = <<>> THEN st
    ELSE rename_dominated(rename_vars_rec(st, Head(sorted_dominated_nodes)),
                          Tail(sorted_dominated_nodes))

\* The phis put before everything else of the block, a leading label too.
finalize_block_phis_first(block, phi_nodes, phi_order) ==
    [block EXCEPT !.instrs =
        [k \in 1 .. Len(phi_order) |-> phi_nodes[phi_order[k]]] \o block.instrs]

\* finalize_phi_nodes for one block: `phi_order` is the order
\* phi_nodes.values() yields the staged phis in.
finalize_block(block, phi_nodes, phi_order) ==
    LET phi_arr == [k \in 1 .. Len(phi_order) |-> phi_nodes[phi_order[k]]]
        instrs  == block.instrs
    IN  IF instrs # <<>> /\ is_label(instrs[1])
        THEN [block EXCEPT !.instrs = <<instrs[1]>> \o phi_arr \o SubSeq(instrs, 2, Len(instrs))]
        ELSE [block EXCEPT !.instrs = phi_arr \o instrs]

finalize_phi_nodes(bs, phis, orders) ==
    [k \in 1 .. Len(bs) |-> finalize_block(bs[k], phis[k - 1], orders[k - 1])]

(***************************************************************************)
(* FunctionBlocksLoader (basicblock.rs).  The loader is the record         *)
(* ld = [blocks, cur, used, errors]: its blocks, the local                 *)
(* cur_block_instrs, already_used_labels and load_errors; cur_id is the    *)
(* number of blocks.  A diagnostic is the name it is about.                *)
(***************************************************************************)
\* BasicBlock::new; the name is computed from the block when it is asked for.
BasicBlock(id, instrs) == [id |-> id, instrs |-> instrs]

is_terminator(instr) == is_instr(instr) /\ instr.op \in {"br", "jmp", "ret"}

\* add_block that does not look up a generated name among the used ones.
add_block_generated_unchecked(ld) ==
    LET new_id     == Len(ld.blocks)
        block_name == BlockName(new_id, ld.cur)
        labelled   == ld.cur # <<>> /\ is_label(ld.cur[1])
    IN  [blocks |-> Append(ld.blocks, BasicBlock(new_id, ld.cur)),
         cur    |-> <<>>,
         used   |-> ld.used \cup {block_name},
         errors |-> IF labelled /\ block_name \in ld.used
                    THEN Append(ld.errors, block_name)
                    ELSE ld.errors]

\* add_block: the block gets the next id and its name; a name that is
\* already used is reported.
add_block(ld) ==
    LET new_id     == Len(ld.blocks)
        block_name == BlockName(new_id, ld.cur)
    IN  [blocks |-> Append(ld.blocks, BasicBlock(new_id, ld.cur)),
         cur    |-> <<>>,
         used   |-> ld.used \cup {block_name},
         errors |-> IF block_name \in ld.used
                    THEN Append(ld.errors, block_name)
                    ELSE ld.errors]

\* The loop body with a label that starts the next block without the
\* running one being added.
load_instr_label_resets(ld, instr) ==
    IF is_instr(instr)
    THEN LET pushed == [ld EXCEPT !.cur = Append(@, instr)]
         IN  IF is_terminator(instr) THEN add_block(pushed) ELSE pushed
    ELSE [ld EXCEPT !.cur = <<instr>>]

\* The loop body with a label that does not close the running block.
load_instr_label_inside(ld, instr) ==
    IF is_instr(instr)
    THEN LET pushed == [ld EXCEPT !.cur = Append(@, instr)]
         IN  IF is_terminator(instr) THEN add_block(pushed) ELSE pushed
    ELSE [ld EXCEPT !.cur = Append(@, instr)]

\* load, lines 90-105: the body of `for instr in &function.instrs`.
load_instr(ld, instr) ==
    IF is_instr(instr)
    THEN LET pushed == [ld EXCEPT !.cur = Append(@, instr)]
         IN  IF is_terminator(instr) THEN add_block(pushed) ELSE pushed
    ELSE IF is_label(instr)
    THEN LET flushed == IF ld.cur # <<>> THEN add_block(ld) ELSE ld
         IN  [flushed EXCEPT !.cur = Append(@, instr)]
    ELSE ld

\* load, lines 107-109: the instructions after the last terminator.
load_rest(ld) == IF ld.cur # <<>> THEN add_block(ld) ELSE ld

(***************************************************************************)
(* DeadCodeElimination (opt/global/dead_code_elimination.rs).              *)
(***************************************************************************)
get_args_copy(instr) == IF has_args(instr) THEN instr.args ELSE <<>>

InstrsOf(bs) == UNION {Range(bs[k].instrs) : k \in 1 .. Len(bs)}

\* Lines 21-36: the arguments and the destinations of the function.
used_args(bs) == UNION {Range(get_args_copy(instr)) : instr \in InstrsOf(bs)}

dests(bs) == {get_dest(instr) : instr \in InstrsOf(bs)} \ {""}

\* Line 39.
unused(bs) == dests(bs) \ used_args(bs)

\* Lines 40-52: the instructions of every block are filtered.
retain_used(bs) ==
    [k \in 1 .. Len(bs) |->
        [bs[k] EXCEPT !.instrs =
            SelectSeq(@, LAMBDA instr :
                get_dest(instr) = "" \/ get_dest(instr) \notin unused(bs))]]

\* delete_unused_vars that returns false whatever it deleted.
delete_unused_vars_reports_none(bs) ==
    [blocks |-> retain_used(bs), any_deleted |-> FALSE]

\* delete_unused_vars: the filtered blocks and the value returned.
delete_unused_vars(bs) ==
    [blocks |-> retain_used(bs), any_deleted |-> Cardinality(unused(bs)) > 0]

(***************************************************************************)
(* LocalValueNumbering (opt/local/lvn.rs).  Its instructions carry their   *)
(* result type and, for a const, the literal.  The value numbering is the  *)
(* record lvn = [env, table, names]; a HashMap is a function on the keys   *)
(* it holds.                                                               *)
(***************************************************************************)
Instruction_new_const(dest, instr_type, value) ==
    [shape |-> "Const", op |-> "const", dest |-> dest, instr_type |-> instr_type,
     value |-> value, args |-> <<>>, labels |-> <<>>, label |-> ""]

Instruction_new_value(op, dest, instr_type, args, labels) ==
    [shape |-> "Value", op |-> op, dest |-> dest, instr_type |-> instr_type,
     args |-> args, labels |-> labels, label |-> ""]

is_const(instr) == instr.shape = "Const"

is_value(instr) == instr.shape = "Value"

\* HashMap::insert.
insert(map, key, value) == (key :> value) @@ map

LocalValueNumbering_new == [env |-> <<>>, table |-> <<>>, names |-> <<>>]

get_current_ordinal(lvn) == Cardinality(DOMAIN lvn.table)

canonicalize_const_instr(instr) ==
    [op |-> "const_" \o ToString(instr.value), args |-> <<>>]

\* Ok(expression), or Err(UndeclaredArgName) as ok = FALSE.
canonicalize_value_instr(lvn_env, instr) ==
    IF \E k \in 1 .. Len(instr.args) : instr.args[k] \notin DOMAIN lvn_env
    THEN [ok |-> FALSE, op |-> "", args |-> <<>>]
    ELSE [ok   |-> TRUE,
          op   |-> instr.op,
          args |-> [k \in 1 .. Len(instr.args) |-> lvn_env[instr.args[k]]]]

\* Some(expression) as some = TRUE, None as some = FALSE.
canonicalize_instruction(lvn, instr) ==
    IF ~is_instr(instr) THEN [some |-> FALSE, op |-> "", args |-> <<>>]
    ELSE IF is_const(instr)
    THEN [some |-> TRUE, op |-> canonicalize_const_instr(instr).op, args |-> <<>>]
    ELSE IF is_value(instr)
    THEN LET canon_instr == canonicalize_value_instr(lvn.env, instr)
         IN  [some |-> canon_instr.ok, op |-> canon_instr.op, args |-> canon_instr.args]
    ELSE [some |-> FALSE, op |-> "", args |-> <<>>]

register_canonicalized_instr(lvn, instr, canon_instr) ==
    IF canon_instr \notin DOMAIN lvn.table
    THEN LET new_ordinal == get_current_ordinal(lvn)
         IN  [lvn |-> [env   |-> insert(lvn.env, instr.dest, new_ordinal),
                       table |-> insert(lvn.table, canon_instr, new_ordinal),
                       names |-> insert(lvn.names, new_ordinal, instr.dest)],
              is_new_entry |-> TRUE,
              ordinal |-> new_ordinal]
    ELSE LET ordinal == lvn.table[canon_instr]
         IN  [lvn |-> [lvn EXCEPT !.env = insert(@, instr.dest, ordinal)],
              is_new_entry |-> FALSE,
              ordinal |-> ordinal]

\* Lines 139-148: the names of the operands' ordinals, those without a name
\* left out.
RECURSIVE updated_args(_, _)
updated_args(lvn_names, arg_ordinals) ==
    IF arg_ordinals = <<>> THEN <<>>
    ELSE (IF Head(arg_ordinals) \in DOMAIN lvn_names
          THEN <<lvn_names[Head(arg_ordinals)]>> ELSE <<>>)
             \o updated_args(lvn_names, Tail(arg_ordinals))

\* A new value keeps its arguments as they were written.
reconstruct_instruction_keeps_args(lvn, instr, canon_instr, is_new_entry, ordinal) ==
    IF ~is_value(instr) THEN instr
    ELSE IF ~is_new_entry
    THEN IF ordinal \notin DOMAIN lvn.names THEN instr
         ELSE Instruction_new_value("id", instr.dest, instr.instr_type,
                                    <<lvn.names[ordinal]>>, <<>>)
    ELSE instr

reconstruct_instruction(lvn, instr, canon_instr, is_new_entry, ordinal) ==
    IF ~is_value(instr) THEN instr
    ELSE IF ~is_new_entry
    THEN IF ordinal \notin DOMAIN lvn.names THEN instr
         ELSE Instruction_new_value("id", instr.dest, instr.instr_type,
                                    <<lvn.names[ordinal]>>, <<>>)
    ELSE IF Len(updated_args(lvn.names, canon_instr.args)) # Len(canon_instr.args)
    THEN instr
    ELSE Instruction_new_value(instr.op, instr.dest, instr.instr_type,
                               updated_args(lvn.names, canon_instr.args),
                               instr.labels)

\* run, lines 28-39: one iteration of `for instr in &mut block.instrs`; the
\* value numbering and the instruction it leaves.
lvn_instr(lvn, instr) ==
    LET canon == canonicalize_instruction(lvn, instr)
        canon_instr == [op |-> canon.op, args |-> canon.args]
        registered == register_canonicalized_instr(lvn, instr, canon_instr)
    IN  IF ~canon.some THEN [lvn |-> lvn, instr |-> instr]
        ELSE [lvn   |-> registered.lvn,
              instr |-> reconstruct_instruction(registered.lvn, instr, canon_instr,
                                                registered.is_new_entry,
                                                registered.ordinal)]

(***************************************************************************)
(* LocalVariableRedeclaration (opt/local/local_variable_redeclaration.rs). *)
(* An instruction is identified by its position in the block, as the       *)
(* pointer of its Rc identifies it in instrs_to_delete.                    *)
(***************************************************************************)
\* Lines 47-53: the uses of the instruction clear last_def.
remove_args(last_def, instr) ==
    [v \in DOMAIN last_def \ Range(instr.args) |-> last_def[v]]

\* The loop of lines 46-64 from position n on, with the uses left alone:
\* an assignment is staged whenever a later one has its destination.
RECURSIVE stage_assignments_ignoring_uses(_, _, _, _)
stage_assignments_ignoring_uses(instrs, n, last_def, instrs_to_delete) ==
    IF n > Len(instrs) THEN instrs_to_delete
    ELSE LET dest == get_dest(instrs[n])
         IN  IF dest = ""
             THEN stage_assignments_ignoring_uses(instrs, n + 1, last_def, instrs_to_delete)
             ELSE stage_assignments_ignoring_uses(
                      instrs, n + 1, insert(last_def, dest, n),
                      IF dest \in DOMAIN last_def
                      THEN instrs_to_delete \cup {last_def[dest]}
                      ELSE instrs_to_delete)

\* The loop of lines 46-64 from position n on: the positions staged for
\* deletion.
RECURSIVE stage_assignments(_, _, _, _)
stage_assignments(instrs, n, last_def, instrs_to_delete) ==
    IF n > Len(instrs) THEN instrs_to_delete
    ELSE LET used == remove_args(last_def, instrs[n])
             dest == get_dest(instrs[n])
         IN  IF dest = ""
             THEN stage_assignments(instrs, n + 1, used, instrs_to_delete)
             ELSE stage_assignments(
                      instrs, n + 1, insert(used, dest, n),
                      IF dest \in DOMAIN used
                      THEN instrs_to_delete \cup {used[dest]}
                      ELSE instrs_to_delete)

\* Lines 70-78: the instructions whose position is not staged.
RECURSIVE filtered_instrs(_, _, _)
filtered_instrs(instrs, n, instrs_to_delete) ==
    IF n > Len(instrs) THEN <<>>
    ELSE (IF n \in instrs_to_delete THEN <<>> ELSE <<instrs[n]>>)
             \o filtered_instrs(instrs, n + 1, instrs_to_delete)

\* delete_unused_assignments on the instructions of a block: the
\* instructions it leaves and the value it returns.
delete_unused_assignments(instrs) ==
    LET instrs_to_delete == stage_assignments(instrs, 1, <<>>, {})
    IN  [instrs      |-> filtered_instrs(instrs, 1, instrs_to_delete),
         did_delete  |-> instrs_to_delete # {}]

(***************************************************************************)
(* The JSON loader (bril/loader.rs).  A JsonValue is a record of its kind   *)
(* and its content; an instruction object is a record of the JsonValues of its members, a   *)
(* missing member being null, as indexing a JSON object gives it.  The     *)
(* member `funcs` is left out: the model's instructions have no funcs.     *)
(* A Result is a record with ok, the instruction and the BrilLoadError.    *)
(***************************************************************************)
JsonNull ==
    [kind |-> "null", str |-> "", num |-> 0, bool |-> FALSE, elems |-> <<>>]

JsonString(str) == [JsonNull EXCEPT !.kind = "string", !.str = str]

JsonNumber(n) == [JsonNull EXCEPT !.kind = "number", !.num = n]

JsonBoolean(b) == [JsonNull EXCEPT !.kind = "boolean", !.bool = b]

JsonArray(elems) == [JsonNull EXCEPT !.kind = "array", !.elems = elems]

is_null(v) == v.kind = "null"

is_string(v) == v.kind = "string"

is_number(v) == v.kind = "number"

is_boolean(v) == v.kind = "boolean"

is_array(v) == v.kind = "array"

\* impl TryFrom<&str> for OpCode: an OpCode is written as its textual form.
OpCodes == {"id", "const", "add", "mul", "lt", "jmp", "br", "ret", "print", "phi"}

VALUE_INSTS == {"id", "add", "mul", "phi"}

EFFECT_INSTS == {"print", "ret", "br", "jmp"}

CONST_INSTS == {"const"}

Ok(instr) == [ok |-> TRUE, instr |-> instr, err |-> ""]

Err(error) == [ok |-> FALSE, instr |-> new_label(""), err |-> error]

\* Ok(type) with the type in err's place, or Err.
load_bril_type(type_v) ==
    IF is_null(type_v) THEN [ok |-> TRUE, type |-> "()", err |-> ""]
    ELSE IF ~is_string(type_v) THEN [ok |-> FALSE, type |-> "", err |-> "InvalidTypeString"]
    ELSE IF type_v.str \in {"int", "bool"} THEN [ok |-> TRUE, type |-> type_v.str, err |-> ""]
    ELSE [ok |-> FALSE, type |-> "", err |-> "InvalidTypeString"]

\* Value::Bool(b) is written 1 or 0; the type of the instruction tells it
\* from a Value::Int.
load_bril_value(value_v, expected_type) ==
    IF expected_type = "int"
    THEN IF ~is_number(value_v) THEN [ok |-> FALSE, value |-> 0, err |-> "TypeMismatch"]
         ELSE [ok |-> TRUE, value |-> value_v.num, err |-> ""]
    ELSE IF expected_type = "bool"
    THEN IF ~is_boolean(value_v) THEN [ok |-> FALSE, value |-> 0, err |-> "TypeMismatch"]
         ELSE [ok |-> TRUE, value |-> IF value_v.bool THEN 1 ELSE 0, err |-> ""]
    ELSE [ok |-> FALSE, value |-> 0, err |-> "Unimplemented"]

load_string_array(arr) ==
    IF is_null(arr) THEN [ok |-> TRUE, strs |-> <<>>, err |-> ""]
    ELSE IF ~is_array(arr) THEN [ok |-> FALSE, strs |-> <<>>, err |-> "NotAStringArray"]
    ELSE IF \E k \in 1 .. Len(arr.elems) : ~is_string(arr.elems[k])
    THEN [ok |-> FALSE, strs |-> <<>>, err |-> "NotAStringArray"]
    ELSE [ok |-> TRUE, strs |-> [k \in 1 .. Len(arr.elems) |-> arr.elems[k].str], err |-> ""]

load_bril_const_instr(op, instr_v) ==
    LET instr_type   == load_bril_type(instr_v.type)
        loaded_value == load_bril_value(instr_v.value, instr_type.type)
    IN  IF ~is_string(instr_v.dest) THEN Err("MalformedInstr")
        ELSE IF ~instr_type.ok THEN Err(instr_type.err)
        ELSE IF ~loaded_value.ok THEN Err(loaded_value.err)
        ELSE Ok(Instruction_new_const(instr_v.dest.str, instr_type.type,
                                      loaded_value.value))

load_bril_value_instr(op, instr_v) ==
    LET instr_type == load_bril_type(instr_v.type)
        args       == load_string_array(instr_v.args)
        labels     == load_string_array(instr_v.labels)
    IN  IF ~is_string(instr_v.dest) THEN Err("MalformedInstr")
        ELSE IF ~instr_type.ok THEN Err(instr_type.err)
        ELSE IF ~args.ok THEN Err(args.err)
        ELSE IF ~labels.ok THEN Err(labels.err)
        ELSE Ok(Instruction_new_value(op, instr_v.dest.str, instr_type.type,
                                      args.strs, labels.strs))

load_bril_effect_instr(op, instr_v) ==
    LET args   == load_string_array(instr_v.args)
        labels == load_string_array(instr_v.labels)
    IN  IF ~args.ok THEN Err(args.err)
        ELSE IF ~labels.ok THEN Err(labels.err)
        ELSE Ok(new_effect(op, args.strs, labels.strs))

load_bril_instr(instr_v) ==
    IF is_string(instr_v.label) THEN Ok(new_label(instr_v.label.str))
    ELSE IF ~is_string(instr_v.op) THEN Err("MalformedInstr")
    ELSE IF instr_v.op.str \notin OpCodes THEN Err("MalformedInstr")
    ELSE IF instr_v.op.str \in CONST_INSTS
    THEN load_bril_const_instr(instr_v.op.str, instr_v)
    ELSE IF instr_v.op.str \in EFFECT_INSTS
    THEN load_bril_effect_instr(instr_v.op.str, instr_v)
    ELSE IF instr_v.op.str \in VALUE_INSTS
    THEN load_bril_value_instr(instr_v.op.str, instr_v)
    ELSE Err("UnrecognizedInstr")

(***************************************************************************)
(* ReachingDefinitions (cfg/dataflow/reaching_definitions.rs).  An         *)
(* IdentifiedDeclaration is <<block id, name>>; `inputs` and `outputs` are *)
(* functions on the block ids they hold.                                   *)
(***************************************************************************)
\* The vars assigned to in the block.
get_defs(block) ==
    {get_dest(block.instrs[n]) : n \in 1 .. Len(block.instrs)} \ {""}

transfer_defs(block_id, defs, input) ==
    LET kills           == {decl \in input : decl[2] \in defs}
        diff            == input \ kills
        identified_defs == {<<block_id, decl>> : decl \in defs}
    IN  diff \cup identified_defs

\* Sets of different size, or of different hash: equal sets have equal
\* hashes, and two different sets of one size are taken to hash differently.
check_different(updated, current) ==
    \/ Cardinality(updated) # Cardinality(current)
    \/ updated # current

\* Lines 68-77: the union of the outputs of the predecessors that have one.
merged_input(outs, preds) ==
    UNION {IF pred_id \in DOMAIN outs THEN outs[pred_id] ELSE {} :
               pred_id \in Range(preds)}

\* Lines 60-102: the body of `while !work_list.is_empty()` on
\* st = [work_list, inputs, outputs, panicked].  The block taken is the
\* first of the BTreeSet, which stays in the work list; the unwrap of line 87
\* aborts when the block has no input.
analyze_block(st, init_block_id) ==
    LET block_id == CHOOSE id \in st.work_list : \A other \in st.work_list : id <= other
        block    == blocks[block_id + 1]
        merged   == IF block_id # init_block_id /\ predecessors[block_id] # <<>>
                    THEN insert(st.inputs, block_id,
                                merged_input(st.outputs, predecessors[block_id]))
                    ELSE st.inputs
    IN  IF block_id \notin DOMAIN merged THEN [st EXCEPT !.panicked = TRUE]
        ELSE LET updated_outputs ==
                     transfer_defs(block_id, get_defs(block), merged[block_id])
                 changed ==
                     /\ block_id \in DOMAIN st.outputs
                     /\ check_different(updated_outputs, st.outputs[block_id])
             IN  [work_list |-> IF changed
                                THEN st.work_list \cup Range(successors[block_id])
                                ELSE st.work_list,
                  inputs    |-> merged,
                  outputs   |-> insert(st.outputs, block_id, updated_outputs),
                  panicked  |-> FALSE]

(***************************************************************************)
(* The functions the pipeline is run on.  A function arrives as the block  *)
(* sequence FunctionBlocksLoader::load produced; the blocks are drawn one  *)
(* at a time.  For the graph analyses a block is its label followed by its *)
(* last instruction: ret, a jump, a branch, or an instruction that falls   *)
(* through.                                                                *)
(***************************************************************************)
LabelOf(id) == "b" \o ToString(id)

BlockLabels == {LabelOf(id) : id \in AllBlockIds}

RECURSIVE LabelCount(_)
LabelCount(bs) ==
    IF bs = <<>> THEN 0
    ELSE Len(Head(bs).instrs[Len(Head(bs).instrs)].labels) + LabelCount(Tail(bs))

LastInstrsWith(labels) ==
    {new_effect("ret", <<>>, <<>>), new_effect("print", <<>>, <<>>)}
        \cup {new_effect("jmp", <<>>, <<l>>) : l \in labels}
        \cup {new_effect("br", <<>>, <<l1, l2>>) : l1 \in labels, l2 \in labels}

\* Every jump names a block of the function.
LastInstrs == LastInstrsWith(BlockLabels)

\* A jump may also name a label no block has.
LastInstrsUnresolved == LastInstrsWith(BlockLabels \cup {"nowhere"})

\* Largest number of instructions in a function besides the labels and the
\* last instruction of each block.
MaxBodyInstrs == 2

\* x = const; x = add a x; print x.
BodyInstrs ==
    {new_const("x"),
     new_value("add", "x", <<"a", "x">>, <<>>),
     new_effect("print", <<"x">>, <<>>)}

\* At most one instruction, or the two definitions x = const; y = const.
BlockBodies ==
    {<<>>} \cup {<<instr>> : instr \in BodyInstrs}
        \cup {<<new_const("x"), new_const("y")>>}

RECURSIVE BodyCount(_)
BodyCount(bs) ==
    IF bs = <<>> THEN 0 ELSE Len(Head(bs).instrs) - 2 + BodyCount(Tail(bs))

\* No pass has run and nothing was handed to the JSON loader.
InitPasses ==
    /\ env = <<>>
    /\ table = <<>>
    /\ names = <<>>
    /\ cur_instr = 1
    /\ work_list = {}
    /\ inputs = <<>>
    /\ outputs = <<>>
    /\ json_instrs = <<>>
    /\ loaded_instrs = <<>>
    /\ bril_error = ""

Init ==
    /\ numBlocks \in 0 .. MaxBlocks
    /\ blocks = <<>>
    /\ pc = "load"
    /\ predecessors = EmptyEdges
    /\ successors = EmptyEdges
    /\ dominators = [id \in BlockIds |-> {}]
    /\ should_continue = FALSE
    /\ dom_tree = [id \in BlockIds |-> {}]
    /\ all_vars = [v \in VarNames |-> {}]
    /\ staged_phi_nodes = NoPhiNodes
    /\ rename_vars_stacks = NoStacks
    /\ rename_failures = <<>>
    /\ function_instrs = <<>>
    /\ next_instr = 1
    /\ cur_block_instrs = <<>>
    /\ already_used_labels = {}
    /\ load_errors = <<>>
    /\ InitPasses

\* The next block of the function is read: its label, a body out of
\* `bodies`, its last instruction.
LoadBlockWith(bodies, lasts) ==
    /\ pc = "load"
    /\ Len(blocks) < numBlocks
    /\ \E body \in bodies, last \in lasts :
          /\ LabelCount(blocks) + Len(last.labels) <= MaxLabels
          /\ BodyCount(blocks) + Len(body) <= MaxBodyInstrs
          /\ blocks' = Append(blocks,
                 BasicBlock(Len(blocks),
                            <<new_label(LabelOf(Len(blocks)))>> \o body \o <<last>>))
    /\ UNCHANGED <<numBlocks, pc, predecessors, successors, dominators,
                   should_continue, dom_tree, ssa_builder, loader, passes>>

\* For the graph analyses the bodies are empty.
LoadBlock == LoadBlockWith({<<>>}, LastInstrs)

\* For the SSA builder a block has a body out of BlockBodies.
LoadFunctionBlock == LoadBlockWith(BlockBodies, LastInstrs)

\* For the construction of the graph alone, jumps to labels that no block
\* has are drawn too.
LoadBlockUnresolved == LoadBlockWith({<<>>}, LastInstrsUnresolved)

\* main.rs line 57.
CreateFromBasicBlocks ==
    /\ pc = "load"
    /\ Len(blocks) = numBlocks
    /\ predecessors' = create_from_basic_blocks.pred
    /\ successors' = create_from_basic_blocks.succ
    /\ pc' = "cfg"
    /\ UNCHANGED <<numBlocks, blocks, dominators, should_continue, dom_tree,
                   ssa_builder, loader, passes>>

\* find_dominators, lines 117-131: entry into the function.
FindDominatorsStart ==
    /\ pc = "cfg"
    /\ dominators' = InitialDominators
    /\ should_continue' = TRUE
    /\ pc' = "dominators"
    /\ UNCHANGED <<numBlocks, blocks, predecessors, successors, dom_tree,
                   ssa_builder, loader, passes>>

\* find_dominators, lines 133-185: one iteration of `while should_continue`.
FindDominatorsPass ==
    /\ pc = "dominators"
    /\ should_continue
    /\ dominators' = dominators_pass(dominators).dom
    /\ should_continue' = dominators_pass(dominators).changed
    /\ UNCHANGED <<numBlocks, blocks, pc, predecessors, successors, dom_tree,
                   ssa_builder, loader, passes>>

\* The loop has ended: find_dominators returns and main.rs line 63 builds the
\* dominator tree from its result.
CreateDominatorTree ==
    /\ pc = "dominators"
    /\ ~should_continue
    /\ dom_tree' = create_dominator_tree(dominators)
    /\ pc' = "domtree"
    /\ UNCHANGED <<numBlocks, blocks, predecessors, successors, dominators,
                   should_continue, ssa_builder, loader, passes>>

Next ==
    \/ LoadBlock
    \/ CreateFromBasicBlocks
    \/ FindDominatorsStart
    \/ FindDominatorsPass
    \/ CreateDominatorTree

Spec == Init /\ [][Next]_vars

\* SSABuilder::new and insert_phi_nodes (main.rs line 69, ssa.rs line 79).
InsertPhiNodes ==
    /\ pc = "domtree"
    /\ LET declaring == find_all_vars(blocks)
       IN  \E order \in [VarNames -> UNION {Orderings(declaring[v]) : v \in VarNames}] :
              /\ \A v \in VarNames : order[v] \in Orderings(declaring[v])
              /\ staged_phi_nodes' = insert_phi_nodes(declaring, order)
              /\ all_vars' = [v \in VarNames |->
                     declaring[v] \cup phi_blocks(order[v], {})]
    /\ pc' = "phis"
    /\ UNCHANGED <<numBlocks, blocks, predecessors, successors, dominators,
                   should_continue, dom_tree, rename_vars_stacks, rename_failures,
                   loader, passes>>

\* rename_vars (ssa.rs line 80): the whole recursion, or the abort of an
\* unwrap in it.
RenameVars ==
    /\ pc = "phis"
    /\ LET renamed == rename_vars_rec(
               [blocks |-> blocks, phis |-> staged_phi_nodes,
                stacks |-> rename_vars_stacks, failures |-> rename_failures,
                panicked |-> FALSE], 0)
       IN  IF renamed.panicked
           THEN /\ pc' = "panicked"
                /\ UNCHANGED <<blocks, staged_phi_nodes, rename_vars_stacks,
                               rename_failures>>
           ELSE /\ pc' = "renamed"
                /\ blocks' = renamed.blocks
                /\ staged_phi_nodes' = renamed.phis
                /\ rename_vars_stacks' = renamed.stacks
                /\ rename_failures' = renamed.failures
    /\ UNCHANGED <<numBlocks, predecessors, successors, dominators,
                   should_continue, dom_tree, all_vars, loader, passes>>

\* finalize_phi_nodes (ssa.rs line 81).
FinalizePhiNodes ==
    /\ pc = "renamed"
    /\ \E orders \in [BlockIds -> UNION {Orderings(DOMAIN staged_phi_nodes[id]) : id \in BlockIds}] :
          /\ \A id \in BlockIds : orders[id] \in Orderings(DOMAIN staged_phi_nodes[id])
          /\ blocks' = finalize_phi_nodes(blocks, staged_phi_nodes, orders)
    /\ pc' = "ssa"
    /\ UNCHANGED <<numBlocks, predecessors, successors, dominators,
                   should_continue, dom_tree, ssa_builder, loader, passes>>

NextSSA ==
    \/ LoadFunctionBlock
    \/ CreateFromBasicBlocks
    \/ FindDominatorsStart
    \/ FindDominatorsPass
    \/ CreateDominatorTree
    \/ InsertPhiNodes
    \/ RenameVars
    \/ FinalizePhiNodes

\* Largest number of blocks of the functions the SSA builder is run on.
MaxFunctionBlocks == 3

\* The pipeline of main.rs on functions with bodies.
InitSSA == Init /\ numBlocks <= MaxFunctionBlocks

SpecSSA == InitSSA /\ [][NextSSA]_vars

\* Largest number of instructions and labels of a function handed to the
\* loader.
MaxInstrs == 5

\* What a function handed to the loader is made of: two labels, one of them
\* of the form of a generated name, the three terminators and an instruction
\* that is none.
LoaderInstrs ==
    {new_label("l"), new_label("block_1"),
     new_effect("ret", <<>>, <<>>),
     new_effect("jmp", <<>>, <<"l">>),
     new_effect("br", <<>>, <<"l", "block_1">>),
     new_effect("print", <<>>, <<>>)}

FunctionInstrs == UNION {[1 .. n -> LoaderInstrs] : n \in 0 .. MaxInstrs}

InitLoad ==
    /\ numBlocks = 0
    /\ blocks = <<>>
    /\ pc = "loader"
    /\ predecessors = EmptyEdges
    /\ successors = EmptyEdges
    /\ dominators = [id \in BlockIds |-> {}]
    /\ should_continue = FALSE
    /\ dom_tree = [id \in BlockIds |-> {}]
    /\ all_vars = [v \in VarNames |-> {}]
    /\ staged_phi_nodes = NoPhiNodes
    /\ rename_vars_stacks = NoStacks
    /\ rename_failures = <<>>
    /\ function_instrs \in FunctionInstrs
    /\ next_instr = 1
    /\ cur_block_instrs = <<>>
    /\ already_used_labels = {}
    /\ load_errors = <<>>
    /\ InitPasses

\* The graph, the dominators and the fields of the SSA builder.
analyses == <<predecessors, successors, dominators, should_continue, dom_tree,
             ssa_builder>>

\* One iteration of the loop of load.
LoadInstr ==
    /\ pc = "loader"
    /\ next_instr <= Len(function_instrs)
    /\ LET ld == load_instr([blocks |-> blocks, cur |-> cur_block_instrs,
                             used |-> already_used_labels, errors |-> load_errors],
                            function_instrs[next_instr])
       IN  /\ blocks' = ld.blocks
           /\ numBlocks' = Len(ld.blocks)
           /\ cur_block_instrs' = ld.cur
           /\ already_used_labels' = ld.used
           /\ load_errors' = ld.errors
    /\ next_instr' = next_instr + 1
    /\ UNCHANGED <<pc, function_instrs, analyses, passes>>

\* load, lines 107-121: the loop has ended; the rest becomes a block and load
\* returns Err(load_errors) or Ok(blocks).
LoadReturn ==
    /\ pc = "loader"
    /\ next_instr > Len(function_instrs)
    /\ LET ld == load_rest([blocks |-> blocks, cur |-> cur_block_instrs,
                            used |-> already_used_labels, errors |-> load_errors])
       IN  /\ blocks' = ld.blocks
           /\ numBlocks' = Len(ld.blocks)
           /\ cur_block_instrs' = ld.cur
           /\ already_used_labels' = ld.used
           /\ load_errors' = ld.errors
           /\ pc' = IF ld.errors # <<>> THEN "load_err" ELSE "load_ok"
    /\ UNCHANGED <<next_instr, function_instrs, analyses, passes>>

NextLoad ==
    \/ LoadInstr
    \/ LoadReturn

\* FunctionBlocksLoader::load on a function (main.rs lines 48-49).
SpecLoad == InitLoad /\ [][NextLoad]_vars

\* Largest number of instructions and labels of a function handed to the
\* dead code elimination.
MaxDceInstrs == 4

\* x = const; y = id x; z = id y; x = id z; print y; a label.
DceInstrs ==
    {new_const("x"),
     new_value("id", "y", <<"x">>, <<>>),
     new_value("id", "z", <<"y">>, <<>>),
     new_value("id", "x", <<"z">>, <<>>),
     new_effect("print", <<"y">>, <<>>),
     new_label("l")}

DceFunctions == UNION {[1 .. n -> DceInstrs] : n \in 0 .. MaxDceInstrs}

\* The instruction list as no block, one block, or two blocks cut at `cut`.
BlocksOf(instrs, cut) ==
    IF instrs = <<>> THEN <<>>
    ELSE IF cut = 0 THEN <<BasicBlock(0, instrs)>>
    ELSE <<BasicBlock(0, SubSeq(instrs, 1, cut)),
           BasicBlock(1, SubSeq(instrs, cut + 1, Len(instrs)))>>

InitDCE ==
    /\ function_instrs \in DceFunctions
    /\ \E cut \in 0 .. MaxDceInstrs :
          /\ cut < Len(function_instrs) \/ cut = 0
          /\ blocks = BlocksOf(function_instrs, cut)
          /\ numBlocks = Len(BlocksOf(function_instrs, cut))
    /\ pc = "dce"
    /\ predecessors = EmptyEdges
    /\ successors = EmptyEdges
    /\ dominators = [id \in BlockIds |-> {}]
    /\ should_continue = FALSE
    /\ dom_tree = [id \in BlockIds |-> {}]
    /\ all_vars = [v \in VarNames |-> {}]
    /\ staged_phi_nodes = NoPhiNodes
    /\ rename_vars_stacks = NoStacks
    /\ rename_failures = <<>>
    /\ next_instr = 1
    /\ cur_block_instrs = <<>>
    /\ already_used_labels = {}
    /\ load_errors = <<>>
    /\ InitPasses

\* DeadCodeElimination::run, lines 9-16: one iteration of its loop.
DeleteUnusedVars ==
    /\ pc = "dce"
    /\ blocks' = delete_unused_vars(blocks).blocks
    /\ pc' = IF delete_unused_vars(blocks).any_deleted THEN "dce" ELSE "dce_done"
    /\ UNCHANGED <<numBlocks, loader, analyses, passes>>

\* DeadCodeElimination::run on a function; the loop is one sequential
\* thread, which makes its next iteration.
SpecDCE == InitDCE /\ [][DeleteUnusedVars]_vars /\ WF_vars(DeleteUnusedVars)

\* Largest number of instructions of a block handed to the local passes.
MaxLocalInstrs == 4

\* x = const 1; y = const 1; x = const 2; z = id y; z = add x y;
\* y = add x y; x = id p, with p assigned nowhere in the block; print z.
LvnInstrs ==
    {Instruction_new_const("x", "int", 1),
     Instruction_new_const("y", "int", 1),
     Instruction_new_const("x", "int", 2),
     Instruction_new_value("id", "z", "int", <<"y">>, <<>>),
     Instruction_new_value("add", "z", "int", <<"x", "y">>, <<>>),
     Instruction_new_value("add", "y", "int", <<"x", "y">>, <<>>),
     Instruction_new_value("id", "x", "int", <<"p">>, <<>>),
     new_effect("print", <<"z">>, <<>>)}

LvnBlocks == UNION {[1 .. n -> LvnInstrs] : n \in 0 .. MaxLocalInstrs}

\* The graph analyses and the SSA builder have not run.
InitAnalyses ==
    /\ predecessors = EmptyEdges
    /\ successors = EmptyEdges
    /\ dominators = [id \in BlockIds |-> {}]
    /\ should_continue = FALSE
    /\ dom_tree = [id \in BlockIds |-> {}]
    /\ all_vars = [v \in VarNames |-> {}]
    /\ staged_phi_nodes = NoPhiNodes
    /\ rename_vars_stacks = NoStacks
    /\ rename_failures = <<>>

\* BasicBlock::new(0, instrs) and LocalValueNumbering::new(), as in test_1;
\* function_instrs keeps the block as it was written.
InitLVN ==
    /\ function_instrs \in LvnBlocks
    /\ blocks = <<BasicBlock(0, function_instrs)>>
    /\ numBlocks = 1
    /\ pc = "lvn"
    /\ InitAnalyses
    /\ next_instr = 1
    /\ cur_block_instrs = <<>>
    /\ already_used_labels = {}
    /\ load_errors = <<>>
    /\ InitPasses

\* LocalValueNumbering::run: one iteration of its loop.
LvnInstr ==
    /\ pc = "lvn"
    /\ cur_instr <= Len(blocks[1].instrs)
    /\ LET done == lvn_instr([env |-> env, table |-> table, names |-> names],
                             blocks[1].instrs[cur_instr])
       IN  /\ env' = done.lvn.env
           /\ table' = done.lvn.table
           /\ names' = done.lvn.names
           /\ blocks' = [blocks EXCEPT ![1].instrs[cur_instr] = done.instr]
    /\ cur_instr' = cur_instr + 1
    /\ UNCHANGED <<numBlocks, pc, loader, analyses, work_list, inputs, outputs,
                   json_instrs, loaded_instrs, bril_error>>

\* LocalValueNumbering::run: the loop has ended.
LvnReturn ==
    /\ pc = "lvn"
    /\ cur_instr > Len(blocks[1].instrs)
    /\ pc' = "lvn_done"
    /\ UNCHANGED <<numBlocks, blocks, loader, analyses, passes>>

NextLVN ==
    \/ LvnInstr
    \/ LvnReturn

\* LocalValueNumbering::run on a block.
SpecLVN == InitLVN /\ [][NextLVN]_vars

\* Largest number of blocks of the functions whose phis alone are placed.
MaxFinalizeBlocks == 2

\* What a renamed block is made of besides its label and its phis: one or
\* two of x.1 = const; print x.1; ret, a terminator last.
RenamedInstrs ==
    {new_const("x.1"),
     new_effect("print", <<"x.1">>, <<>>),
     new_effect("ret", <<>>, <<>>)}

RenamedBodies ==
    {body \in UNION {[1 .. n -> RenamedInstrs] : n \in 1 .. 2} :
        \A k \in 1 .. (Len(body) - 1) : ~is_terminator(body[k])}

\* The phi staged for v in block id when the renaming has returned: it has
\* its new destination and the name v has at the end of the predecessor
\* `label`.
renamed_phi(v, id, label) ==
    new_value("phi", v \o "." \o ToString(id + 2), <<v \o ".1">>, <<label>>)

\* The builder when rename_vars has returned (ssa.rs line 80): each block
\* with or without a leading label, each with phis staged for some of the
\* variables.
InitFinalize ==
    /\ numBlocks \in 1 .. MaxFinalizeBlocks
    /\ \E bodies \in [1 .. numBlocks -> RenamedBodies], labelled \in SUBSET (1 .. numBlocks) :
          blocks = [k \in 1 .. numBlocks |->
                       BasicBlock(k - 1,
                                  (IF k \in labelled
                                   THEN <<new_label(LabelOf(k - 1))>> ELSE <<>>)
                                      \o bodies[k])]
    /\ \E phi_vars \in [0 .. (numBlocks - 1) -> SUBSET Variables] :
          staged_phi_nodes =
              [id \in BlockIds |->
                  IF id < numBlocks
                  THEN [v \in phi_vars[id] |->
                           renamed_phi(v, id, BlockName(0, blocks[1].instrs))]
                  ELSE << >>]
    /\ pc = "renamed"
    /\ predecessors = EmptyEdges
    /\ successors = EmptyEdges
    /\ dominators = [id \in BlockIds |-> {}]
    /\ should_continue = FALSE
    /\ dom_tree = [id \in BlockIds |-> {}]
    /\ all_vars = [v \in VarNames |-> {}]
    /\ rename_vars_stacks = NoStacks
    /\ rename_failures = <<>>
    /\ function_instrs = <<>>
    /\ next_instr = 1
    /\ cur_block_instrs = <<>>
    /\ already_used_labels = {}
    /\ load_errors = <<>>
    /\ InitPasses

\* finalize_phi_nodes on a renamed function.
SpecFinalize == InitFinalize /\ [][FinalizePhiNodes]_vars

\* x = const; x = add x x; y = id x; x = id y; print x; y = const.
LvrInstrs ==
    {new_const("x"),
     new_value("add", "x", <<"x", "x">>, <<>>),
     new_value("id", "y", <<"x">>, <<>>),
     new_value("id", "x", <<"y">>, <<>>),
     new_effect("print", <<"x">>, <<>>),
     new_const("y")}

LvrBlocks == UNION {[1 .. n -> LvrInstrs] : n \in 0 .. MaxLocalInstrs}

\* A block handed to LocalVariableRedeclaration::run; function_instrs keeps
\* it as it was written.
InitLVR ==
    /\ function_instrs \in LvrBlocks
    /\ blocks = <<BasicBlock(0, function_instrs)>>
    /\ numBlocks = 1
    /\ pc = "lvr"
    /\ InitAnalyses
    /\ next_instr = 1
    /\ cur_block_instrs = <<>>
    /\ already_used_labels = {}
    /\ load_errors = <<>>
    /\ InitPasses

\* LocalVariableRedeclaration::run, lines 34-39: one iteration of its loop.
DeleteUnusedAssignments ==
    /\ pc = "lvr"
    /\ LET deleted == delete_unused_assignments(blocks[1].instrs)
       IN  /\ blocks' = [blocks EXCEPT ![1].instrs = deleted.instrs]
           /\ pc' = IF deleted.did_delete THEN "lvr" ELSE "lvr_done"
    /\ UNCHANGED <<numBlocks, loader, analyses, passes>>

\* LocalVariableRedeclaration::run on a block; the loop is one sequential
\* thread, which makes its next iteration.
SpecLVR ==
    /\ InitLVR
    /\ [][DeleteUnusedAssignments]_vars
    /\ WF_vars(DeleteUnusedAssignments)

\* Largest number of instruction objects in the `instrs` array of a
\* function handed to the JSON loader.
MaxJsonInstrs == 1

\* The instruction objects: with or without a label; no op, an op that is
\* no string, each of the ten opcodes and the opcode sub; with or without
\* dest; no type, int or float; with or without the value 1, the args
\* [a, b] and the labels [l].
JsonInstrs ==
    [label  : {JsonNull, JsonString("l")},
     op     : {JsonNull, JsonNumber(1)} \cup {JsonString(o) : o \in OpCodes \cup {"sub"}},
     dest   : {JsonNull, JsonString("x")},
     type   : {JsonNull, JsonString("int"), JsonString("float")},
     value  : {JsonNull, JsonNumber(1)},
     args   : {JsonNull, JsonArray(<<JsonString("a"), JsonString("b")>>)},
     labels : {JsonNull, JsonArray(<<JsonString("l")>>)}]

\* load_bril_function is at its loop over `instrs` (loader.rs line 76).
InitBril ==
    /\ json_instrs \in UNION {[1 .. n -> JsonInstrs] : n \in 0 .. MaxJsonInstrs}
    /\ loaded_instrs = <<>>
    /\ bril_error = ""
    /\ env = <<>>
    /\ table = <<>>
    /\ names = <<>>
    /\ cur_instr = 1
    /\ work_list = {}
    /\ inputs = <<>>
    /\ outputs = <<>>
    /\ numBlocks = 0
    /\ blocks = <<>>
    /\ pc = "bril"
    /\ InitAnalyses
    /\ function_instrs = <<>>
    /\ next_instr = 1
    /\ cur_block_instrs = <<>>
    /\ already_used_labels = {}
    /\ load_errors = <<>>

\* load_bril_function, lines 77-79: one iteration of the loop; the `?`
\* returns the error of load_bril_instr.
LoadBrilInstr ==
    /\ pc = "bril"
    /\ Len(loaded_instrs) < Len(json_instrs)
    /\ LET loaded == load_bril_instr(json_instrs[Len(loaded_instrs) + 1])
       IN  IF loaded.ok
           THEN /\ loaded_instrs' = Append(loaded_instrs, loaded.instr)
                /\ UNCHANGED <<pc, bril_error>>
           ELSE /\ bril_error' = loaded.err
                /\ pc' = "bril_err"
                /\ UNCHANGED loaded_instrs
    /\ UNCHANGED <<numBlocks, blocks, loader, analyses, env, table, names,
                   cur_instr, work_list, inputs, outputs, json_instrs>>

\* load_bril_function, lines 81-86: the loop has ended and the function is
\* returned.
LoadBrilReturn ==
    /\ pc = "bril"
    /\ Len(loaded_instrs) = Len(json_instrs)
    /\ pc' = "bril_ok"
    /\ UNCHANGED <<numBlocks, blocks, loader, analyses, passes>>

NextBril ==
    \/ LoadBrilInstr
    \/ LoadBrilReturn

\* load_bril_function on the instructions of a function.
SpecBril == InitBril /\ [][NextBril]_vars

\* Largest number of blocks of the functions the reaching definitions are
\* computed on.
MaxAnalyzedBlocks == 3

InitReaching == Init /\ numBlocks <= MaxAnalyzedBlocks

\* analyze, lines 33-56: the return on a function without blocks, or the
\* input of the first block and the work list of all blocks.
AnalyzeStart ==
    /\ pc = "cfg"
    /\ IF numBlocks = 0
       THEN /\ pc' = "reaching_done"
            /\ UNCHANGED <<work_list, inputs, outputs>>
       ELSE /\ pc' = "reaching"
            /\ inputs' = (blocks[1].id :> {<<blocks[1].id, a>> : a \in FunctionArgs})
            /\ outputs' = <<>>
            /\ work_list' = {blocks[k].id : k \in 1 .. Len(blocks)}
    /\ UNCHANGED <<numBlocks, blocks, loader, analyses, env, table, names,
                   cur_instr, json_instrs, loaded_instrs, bril_error>>

\* analyze, lines 59-103: the test of the while loop and, when the work list
\* is not empty, one iteration; with an empty work list analyze returns.
AnalyzeLoop ==
    /\ pc = "reaching"
    /\ IF work_list = {}
       THEN /\ pc' = "reaching_done"
            /\ UNCHANGED <<work_list, inputs, outputs>>
       ELSE LET st == analyze_block([work_list |-> work_list, inputs |-> inputs,
                                     outputs |-> outputs, panicked |-> FALSE],
                                    blocks[1].id)
            IN  IF st.panicked
                THEN /\ pc' = "reaching_panicked"
                     /\ UNCHANGED <<work_list, inputs, outputs>>
                ELSE /\ work_list' = st.work_list
                     /\ inputs' = st.inputs
                     /\ outputs' = st.outputs
                     /\ UNCHANGED pc
    /\ UNCHANGED <<numBlocks, blocks, loader, analyses, env, table, names,
                   cur_instr, json_instrs, loaded_instrs, bril_error>>

NextReaching ==
    \/ LoadFunctionBlock
    \/ CreateFromBasicBlocks
    \/ AnalyzeStart
    \/ AnalyzeLoop

\* ReachingDefinitions::analyze on the graph of a loaded function; analyze
\* is one sequential thread, which makes its next iteration.
SpecReaching ==
    /\ InitReaching
    /\ [][NextReaching]_vars
    /\ WF_vars(AnalyzeStart)
    /\ WF_vars(AnalyzeLoop)

\* Largest number of blocks of the functions whose graph alone is built.
MaxGraphBlocks == 4

InitCFG == Init /\ numBlocks <= MaxGraphBlocks

NextCFG ==
    \/ LoadBlockUnresolved
    \/ CreateFromBasicBlocks

\* The pipeline of main.rs up to line 57.
SpecCFG == InitCFG /\ [][NextCFG]_vars

\* Largest number of blocks of the functions the termination of the
\* dominator loop is checked on.
MaxLoopBlocks == 3

\* The driver is one sequential thread: a loop that can make another pass
\* makes it.
InitLoop == Init /\ numBlocks <= MaxLoopBlocks

FairSpec ==
    /\ InitLoop
    /\ [][Next]_vars
    /\ WF_vars(FindDominatorsPass)

(***************************************************************************)
(* Graph notions the properties are stated with (spec.md, glossary).       *)
(***************************************************************************)
Preds(b) == Range(predecessors[b])

Succs(b) == Range(successors[b])

\* The blocks some path from block 0 reaches without entering `avoid`.
RECURSIVE ReachAvoiding(_, _)
ReachAvoiding(seen, avoid) ==
    LET more == {y \in AllBlockIds \ (seen \cup avoid) :
                    \E x \in seen : y \in Succs(x)}
    IN  IF more = {} THEN seen ELSE ReachAvoiding(seen \cup more, avoid)

Reachable == IF numBlocks = 0 THEN {} ELSE ReachAvoiding({0}, {})

\* a dominates b: every path from block 0 to b passes through a.
Dominates(a, b) ==
    \/ a = b
    \/ a = 0
    \/ b \notin ReachAvoiding({0}, {a})

TrueDominators(b) == {a \in AllBlockIds : Dominates(a, b)}

IntersectionOf(sets) == {x \in UNION sets : \A t \in sets : x \in t}

\* find_dominators has returned and `dominators` is its result.
DominatorsFound == pc = "domtree" \/ (pc = "dominators" /\ ~should_continue)

\* C1: the result of find_dominators has DOM(0) = {0} and, for every other
\* block with a predecessor, DOM(b) = {b} \cup the intersection of its
\* predecessors' sets.
C1_DominatorEquations ==
    (DominatorsFound /\ numBlocks > 0) =>
        /\ dominators[0] = {0}
        /\ \A b \in AllBlockIds \ {0} :
              Preds(b) # {} =>
                  dominators[b] =
                      {b} \cup IntersectionOf({dominators[p] : p \in Preds(b)})

\* C2: for every block reachable from block 0, the set find_dominators
\* returns is exactly the set of blocks every path from block 0 to it passes
\* through.
C2_DominatorsArePathDominators ==
    DominatorsFound =>
        \A b \in Reachable : dominators[b] = TrueDominators(b)

\* C3: the loop of find_dominators ends: once it is entered, a pass in which
\* no set changes follows.
C3_DominatorLoopTerminates ==
    (pc = "dominators") ~> (pc = "dominators" /\ ~should_continue)

\* A CFG with a back edge into block 0, a self-loop and an unreachable block
\* for which the loop made a pass that changed nothing.
C3_Witness ==
    /\ pc = "dominators" /\ ~should_continue
    /\ Preds(0) # {}
    /\ \E b \in AllBlockIds : b \in Succs(b)
    /\ AllBlockIds \ Reachable # {}
    /\ dominators # InitialDominators

(***************************************************************************)
(* The dominator tree and the dominance frontier.                          *)
(***************************************************************************)
TreeBuilt == pc = "domtree"

StrictDominators == retain_only_strict_dominators(dominators)

ImmediateDominators == find_immediate_dominators(StrictDominators)

\* The blocks met by following immediate dominators from b, at most `fuel`
\* times; block 0 has no immediate dominator.
RECURSIVE ProperAncestors(_, _)
ProperAncestors(b, fuel) ==
    IF b = 0 \/ fuel = 0 THEN {}
    ELSE {ImmediateDominators[b]}
             \cup ProperAncestors(ImmediateDominators[b], fuel - 1)

\* Following immediate dominators from b ends in block 0 without meeting a
\* block twice.
RECURSIVE ReachesEntry(_, _)
ReachesEntry(b, seen) ==
    \/ b = 0
    \/ /\ b \notin seen
       /\ ReachesEntry(ImmediateDominators[b], seen \cup {b})

\* C4: the immediate dominators form a tree rooted at block 0, the proper
\* ancestors of a block in it are its strict dominators, and the dominator
\* tree lists c under p exactly when p is the immediate dominator of c.
C4_ImmediateDominatorsFormTree ==
    TreeBuilt =>
        /\ \A b \in AllBlockIds : ReachesEntry(b, {})
        /\ \A b \in AllBlockIds :
              ProperAncestors(b, numBlocks) = StrictDominators[b]
        /\ \A p \in AllBlockIds : \A c \in AllBlockIds \ {0} :
              c \in dom_tree[p] <=> ImmediateDominators[c] = p

\* r is in StrictDominators(b) and every other element of it dominates r.
IsClosestStrictDominator(r, b) ==
    /\ r \in StrictDominators[b]
    /\ \A d \in StrictDominators[b] \ {r} : d \in dominators[r]

\* C5: for every block b other than block 0, find_immediate_dominator
\* returns the one block of StrictDominators(b) that every other element of
\* StrictDominators(b) dominates, and never b.
C5_ImmediateDominatorIsClosest ==
    TreeBuilt =>
        \A b \in AllBlockIds \ {0} :
            /\ ImmediateDominators[b] # b
            /\ IsClosestStrictDominator(ImmediateDominators[b], b)
            /\ \A r \in AllBlockIds :
                  IsClosestStrictDominator(r, b) => r = ImmediateDominators[b]

\* C6: DF(b) is the successors of S = {b} \cup children(b) without the
\* members of S other than b, so a block that is a successor of itself or of
\* one of its children is in its own frontier.
C6_FrontierKeepsBlockItself ==
    TreeBuilt =>
        \A b \in AllBlockIds :
            LET S == {b} \cup dom_tree[b]
            IN  get_dominance_frontier(dom_tree, b) =
                    (UNION {Succs(x) : x \in S}) \ (S \ {b})

\* C7: a block in DF(b) is not strictly dominated by b and has a predecessor
\* that b dominates; a block that dominates every block has an empty
\* frontier.
C7_FrontierIsNotStrictlyDominated ==
    TreeBuilt =>
        \A b \in AllBlockIds :
            /\ \A y \in get_dominance_frontier(dom_tree, b) :
                  /\ ~(b # y /\ Dominates(b, y))
                  /\ \E x \in Preds(y) : Dominates(b, x)
            /\ (\A y \in AllBlockIds : Dominates(b, y)) =>
                  get_dominance_frontier(dom_tree, b) = {}

(***************************************************************************)
(* The function convert_to_ssa_form leaves behind.                         *)
(***************************************************************************)
\* convert_to_ssa_form has returned.
Converted == pc = "ssa"

\* The places of the instructions: <<block id, index in the block>>.
Positions ==
    UNION {{<<b, n>> : n \in 1 .. Len(blocks[b + 1].instrs)} : b \in AllBlockIds}

InstrAt(p) == blocks[p[1] + 1].instrs[p[2]]

IsPhi(instr) == instr.shape = "Value" /\ instr.op = "phi"

Definitions == {p \in Positions : get_dest(InstrAt(p)) # ""}

DefinitionsOf(x) == {d \in Definitions : get_dest(InstrAt(d)) = x}

\* C8: after convert_to_ssa_form, the destination of a Const or Value
\* instruction that is not a phi is the destination of no other defining
\* instruction of the function.
C8_DestinationsAreUnique ==
    Converted =>
        \A p \in Definitions :
            ~IsPhi(InstrAt(p)) => DefinitionsOf(get_dest(InstrAt(p))) = {p}

\* The block a use is made in: a phi uses its k-th argument at the end of
\* the predecessor its k-th label names, any other instruction where it
\* stands.
UseBlock(p, k) ==
    IF IsPhi(InstrAt(p)) /\ k <= Len(InstrAt(p).labels)
    THEN get_block_idx_by_name(InstrAt(p).labels[k])
    ELSE p[1]

\* The definition at d is in force at the k-th argument of the instruction
\* at p.
DefinitionReaches(d, p, k) ==
    IF IsPhi(InstrAt(p))
    THEN Dominates(d[1], UseBlock(p, k))
    ELSE IF d[1] = p[1] THEN d[2] < p[2]
    ELSE Dominates(d[1], p[1])

\* Every name the renaming could not replace is a parameter.
OnlyParametersFailed ==
    \A k \in 1 .. Len(rename_failures) : rename_failures[k][2] \in FunctionArgs

\* C9: after convert_to_ssa_form, every name used as an argument is a
\* parameter of the function or has exactly one definition, in a block that
\* dominates the block of the use and before the use when in the same
\* block.  Stated for the functions in which no name other than a parameter
\* was reported as a rename failure.
C9_UsesHaveOneDominatingDefinition ==
    (Converted /\ OnlyParametersFailed) =>
        \A p \in Positions :
            \A k \in 1 .. Len(InstrAt(p).args) :
                LET x == InstrAt(p).args[k]
                IN  \/ x \in FunctionArgs
                    \/ /\ Cardinality(DefinitionsOf(x)) = 1
                       /\ \A d \in DefinitionsOf(x) : DefinitionReaches(d, p, k)

\* C10: after convert_to_ssa_form, every phi has as many arguments as
\* labels, and its labels are exactly the names of the predecessors of its
\* block.
C10_PhiLabelsArePredecessors ==
    Converted =>
        \A p \in Positions :
            IsPhi(InstrAt(p)) =>
                /\ Len(InstrAt(p).args) = Len(InstrAt(p).labels)
                /\ Range(InstrAt(p).labels) = {get_block_name(q) : q \in Preds(p[1])}

\* C11: convert_to_ssa_form never aborts: on every function, the empty one
\* and one in which a variable with a phi staged in a successor has no
\* current name included, the renaming runs to its end.
C11_ConversionNeverAborts == pc # "panicked"

\* C12: the conversion is deterministic: whatever order the staged phis of a
\* block are iterated in, finalize_phi_nodes leaves the same instruction
\* sequences.
C12_ConversionIsDeterministic ==
    [][(pc = "renamed" /\ pc' = "ssa") =>
          \A orders \in [BlockIds -> UNION {Orderings(DOMAIN staged_phi_nodes[id]) : id \in BlockIds}] :
              (\A id \in BlockIds : orders[id] \in Orderings(DOMAIN staged_phi_nodes[id]))
                  => blocks' = finalize_phi_nodes(blocks, staged_phi_nodes, orders)]_vars

(***************************************************************************)
(* The graph create_from_basic_blocks builds.                              *)
(***************************************************************************)
\* create_from_basic_blocks has returned.
GraphBuilt == pc # "load"

Count(seq, x) == Cardinality({k \in 1 .. Len(seq) : seq[k] = x})

LastInstr(id) == blocks[id + 1].instrs[Len(blocks[id + 1].instrs)]

\* The blocks with the name l.
BlocksNamed(l) == {id \in AllBlockIds : get_block_name(id) = l}

\* C13: b occurs in successors(a) as many times as a occurs in
\* predecessors(b).
C13_EdgesAreMirrored ==
    GraphBuilt =>
        \A a \in AllBlockIds : \A b \in AllBlockIds :
            Count(successors[a], b) = Count(predecessors[b], a)

\* A graph with a doubled edge, a fall-through edge and a block with two
\* different predecessors.
C13_Witness ==
    /\ GraphBuilt
    /\ \E a \in AllBlockIds : \E b \in AllBlockIds : Count(successors[a], b) = 2
    /\ \E a \in AllBlockIds : ~is_jump(LastInstr(a)) /\ successors[a] # <<>>
    /\ \E b \in AllBlockIds : Cardinality(Preds(b)) >= 2

\* The ids of the blocks the labels name, in label order; a label that names
\* no block is left out.
NamedTargets(labels) ==
    LET naming == SelectSeq(labels, LAMBDA l : BlocksNamed(l) # {})
    IN  [k \in 1 .. Len(naming) |-> CHOOSE id \in BlocksNamed(naming[k]) : TRUE]

C15_RetAndFallThrough ==
    GraphBuilt =>
        \A id \in AllBlockIds :
            /\ is_ret(LastInstr(id)) => successors[id] = <<>>
            /\ (~is_jump(LastInstr(id)) /\ ~is_ret(LastInstr(id))) =>
                   successors[id] = IF id < numBlocks - 1 THEN <<id + 1>> ELSE <<>>

\* A block that ends in ret and is followed by another block, a block that
\* falls through to the next one, and a last block that ends in neither.
C15_Witness ==
    /\ GraphBuilt
    /\ \E id \in AllBlockIds : is_ret(LastInstr(id)) /\ id < numBlocks - 1
    /\ \E id \in AllBlockIds :
          ~is_jump(LastInstr(id)) /\ ~is_ret(LastInstr(id)) /\ successors[id] = <<id + 1>>
    /\ ~is_jump(LastInstr(numBlocks - 1)) /\ ~is_ret(LastInstr(numBlocks - 1))

\* C16: a jump label that names no block is recorded as a diagnostic of the
\* construction, which completes with the other edges.
C16_UnresolvedTargetsAreReported ==
    GraphBuilt =>
        \A id \in AllBlockIds :
            is_jump(LastInstr(id)) =>
                \A l \in Range(get_jump_target(LastInstr(id))) :
                    BlocksNamed(l) = {} =>
                        l \in Range(reported_targets(get_jump_target(LastInstr(id))))

(***************************************************************************)
(* The blocks FunctionBlocksLoader::load produces.                         *)
(***************************************************************************)
LoadedOk == pc = "load_ok"

LoadReturned == pc \in {"load_ok", "load_err"}

RECURSIVE ConcatInstrs(_)
ConcatInstrs(bs) ==
    IF bs = <<>> THEN <<>> ELSE Head(bs).instrs \o ConcatInstrs(Tail(bs))

\* C17: the blocks load produces have the ids 0 .. N-1 in order, their
\* instruction sequences concatenated are the instruction list of the
\* function, and every label of the function is the first instruction of a
\* block.
C17_BlocksPartitionTheFunction ==
    LoadedOk =>
        /\ \A k \in 1 .. Len(blocks) : blocks[k].id = k - 1
        /\ ConcatInstrs(blocks) = function_instrs
        /\ \A i \in 1 .. Len(function_instrs) :
              is_label(function_instrs[i]) =>
                  \E k \in 1 .. Len(blocks) :
                      /\ blocks[k].instrs[1] = function_instrs[i]
                      /\ Len(ConcatInstrs(SubSeq(blocks, 1, k - 1))) = i - 1

\* A function with two labels in a row, two terminators in a row and
\* instructions after its last terminator.
C17_Witness ==
    /\ LoadedOk
    /\ Len(blocks) >= 4
    /\ \E i \in 1 .. Len(function_instrs) - 1 :
          is_label(function_instrs[i]) /\ is_label(function_instrs[i + 1])
    /\ \E i \in 1 .. Len(function_instrs) - 1 :
          is_terminator(function_instrs[i]) /\ is_terminator(function_instrs[i + 1])
    /\ ~is_terminator(function_instrs[Len(function_instrs)])

\* C18: every block load produces is non-empty, has a terminator only as its
\* last instruction and a label only as its first.
C18_BlocksAreWellFormed ==
    LoadedOk =>
        \A k \in 1 .. Len(blocks) :
            LET instrs == blocks[k].instrs
            IN  /\ instrs # <<>>
                /\ \A n \in 1 .. Len(instrs) :
                      /\ is_terminator(instrs[n]) => n = Len(instrs)
                      /\ is_label(instrs[n]) => n = 1

\* A function in which a label follows an instruction that is no terminator,
\* with a block of a label alone and a block without label.
C18_Witness ==
    /\ LoadedOk
    /\ \E i \in 1 .. Len(function_instrs) - 1 :
          /\ is_instr(function_instrs[i]) /\ ~is_terminator(function_instrs[i])
          /\ is_label(function_instrs[i + 1])
    /\ \E k \in 1 .. Len(blocks) :
          Len(blocks[k].instrs) = 1 /\ is_label(blocks[k].instrs[1])
    /\ \E k \in 1 .. Len(blocks) : ~is_label(blocks[k].instrs[1])

NameOfBlock(k) == BlockName(blocks[k].id, blocks[k].instrs)

\* The blocks whose name an earlier block has.
RepeatedNames ==
    {k \in 1 .. Len(blocks) : \E j \in 1 .. k - 1 : NameOfBlock(j) = NameOfBlock(k)}

\* C19: load returns an error exactly when two blocks get the same name, be
\* it two equal labels or a generated name and a label in either order; it
\* reads the whole function and returns one diagnostic for every block whose
\* name an earlier block has; it never returns Ok with two blocks of one
\* name.
C19_DuplicateNamesAreErrors ==
    LoadReturned =>
        /\ pc = "load_err" <=> RepeatedNames # {}
        /\ ConcatInstrs(blocks) = function_instrs
        /\ Len(load_errors) = Cardinality(RepeatedNames)
        /\ \A k \in RepeatedNames :
              Count(load_errors, NameOfBlock(k)) =
                  Cardinality({j \in RepeatedNames : NameOfBlock(j) = NameOfBlock(k)})

\* A function whose label block_1 comes after the block that got the
\* generated name block_1, and whose label l is used twice.
C19_Witness ==
    /\ pc = "load_err"
    /\ Len(load_errors) = 2
    /\ \E k \in RepeatedNames : \E j \in 1 .. k - 1 :
          /\ NameOfBlock(j) = NameOfBlock(k)
          /\ ~is_label(blocks[j].instrs[1]) /\ is_label(blocks[k].instrs[1])
    /\ \E k \in RepeatedNames : NameOfBlock(k) = "l"

(***************************************************************************)
(* The function DeadCodeElimination::run leaves behind.                    *)
(***************************************************************************)
Eliminated == pc = "dce_done"

\* t is s with some of its elements left out.
RECURSIVE IsSubsequence(_, _)
IsSubsequence(t, s) ==
    IF t = <<>> THEN TRUE
    ELSE IF s = <<>> THEN FALSE
    ELSE IF Head(t) = Head(s) THEN IsSubsequence(Tail(t), Tail(s))
    ELSE IsSubsequence(t, Tail(s))

WithoutDestination(instrs) == SelectSeq(instrs, LAMBDA instr : get_dest(instr) = "")

\* C20: DeadCodeElimination::run terminates, and when it has returned every
\* remaining instruction with a destination has it used as an argument by an
\* instruction of the function, every instruction without destination is
\* still there, and the remaining instructions are in their order.
C20_DeadCodeIsEliminated ==
    /\ (pc = "dce") ~> Eliminated
    /\ [](Eliminated =>
            /\ \A instr \in InstrsOf(blocks) :
                  get_dest(instr) # "" =>
                      \E user \in InstrsOf(blocks) :
                          get_dest(instr) \in Range(get_args_copy(user))
            /\ Len(blocks) = numBlocks
            /\ IsSubsequence(ConcatInstrs(blocks), function_instrs)
            /\ WithoutDestination(ConcatInstrs(blocks)) =
                   WithoutDestination(function_instrs))

\* A function of two blocks from which at least two instructions were
\* removed and in which an instruction with a destination, used in the other
\* block, is left.
C20_Witness ==
    /\ Eliminated
    /\ Len(blocks) = 2
    /\ Len(ConcatInstrs(blocks)) <= Len(function_instrs) - 2
    /\ \E instr \in Range(blocks[1].instrs) :
          /\ get_dest(instr) # ""
          /\ \E user \in Range(blocks[2].instrs) :
                get_dest(instr) \in Range(get_args_copy(user))

(***************************************************************************)
(* The block LocalValueNumbering::run leaves behind.                       *)
(***************************************************************************)
\* run has returned.
Numbered == pc = "lvn_done"

\* The value number of a variable and the canonical name of a value number,
\* as the instructions before the current one left them.
ValueNumber(v) == env[v]

CanonicalName(n) == names[n]

Declared(instr) == \A k \in 1 .. Len(instr.args) : instr.args[k] \in DOMAIN env

CanonicalExpression(instr) ==
    [op   |-> instr.op,
     args |-> [k \in 1 .. Len(instr.args) |-> ValueNumber(instr.args[k])]]

\* C21: run rewrites a value instruction whose canonical expression an
\* earlier instruction of the block registered to `id <canonical name>` with
\* the same destination and type; a value instruction with a new canonical
\* expression keeps opcode, destination and type and has every operand
\* replaced by the canonical name of its value number; the block keeps its
\* number of instructions and its other instructions.
C21_ValueInstructionsAreRewritten ==
    [][(pc = "lvn" /\ cur_instr' = cur_instr + 1) =>
          LET instr == blocks[1].instrs[cur_instr]
              after == blocks'[1].instrs[cur_instr]
          IN  /\ Len(blocks'[1].instrs) = Len(blocks[1].instrs)
              /\ \A k \in 1 .. Len(blocks[1].instrs) :
                    k # cur_instr => blocks'[1].instrs[k] = blocks[1].instrs[k]
              /\ (is_value(instr) /\ Declared(instr)) =>
                    IF CanonicalExpression(instr) \in DOMAIN table
                    THEN after = Instruction_new_value(
                                     "id", instr.dest, instr.instr_type,
                                     <<CanonicalName(table[CanonicalExpression(instr)])>>,
                                     <<>>)
                    ELSE /\ is_value(after)
                         /\ after.op = instr.op
                         /\ after.dest = instr.dest
                         /\ after.instr_type = instr.instr_type
                         /\ after.args =
                                [k \in 1 .. Len(instr.args) |->
                                    CanonicalName(ValueNumber(instr.args[k]))]]_vars

\* A block in which one addition became an id and another instruction kept
\* its opcode with an operand renamed.
C21_Witness ==
    /\ Numbered
    /\ \E k \in 1 .. Len(function_instrs) :
          /\ function_instrs[k].op = "add"
          /\ blocks[1].instrs[k].op = "id"
    /\ \E k \in 1 .. Len(function_instrs) :
          /\ function_instrs[k].op = "add"
          /\ blocks[1].instrs[k].op = "add"
          /\ blocks[1].instrs[k].args # function_instrs[k].args

(***************************************************************************)
(* The meaning of a block: the values its instructions leave in the        *)
(* variables (spec.md, section 3).                                         *)
(***************************************************************************)
LvnVars == {"x", "y", "z", "p"}

InitialValues == 0 .. 2

Exec(instr, e) ==
    IF is_const(instr) THEN [e EXCEPT ![instr.dest] = instr.value]
    ELSE IF is_value(instr) /\ instr.op = "id"
    THEN [e EXCEPT ![instr.dest] = e[instr.args[1]]]
    ELSE IF is_value(instr) /\ instr.op = "add"
    THEN [e EXCEPT ![instr.dest] = e[instr.args[1]] + e[instr.args[2]]]
    ELSE IF is_value(instr) /\ instr.op = "mul"
    THEN [e EXCEPT ![instr.dest] = e[instr.args[1]] * e[instr.args[2]]]
    ELSE e

RECURSIVE Run(_, _)
Run(instrs, e) == IF instrs = <<>> THEN e ELSE Run(Tail(instrs), Exec(Head(instrs), e))

\* C28: for every initial environment, the block run leaves gives every
\* variable the value the block as written gives it.
C28_NumberingPreservesMeaning ==
    Numbered =>
        \A e \in [LvnVars -> InitialValues] :
            Run(blocks[1].instrs, e) = Run(function_instrs, e)

(***************************************************************************)
(* The phis insert_phi_nodes stages.                                       *)
(***************************************************************************)
\* insert_phi_nodes has returned and the renaming has not begun.
PhisStaged == pc = "phis"

\* DF(b) of spec.md, section 4.3: the successors of S = {b} \cup children(b)
\* without the members of S other than b.
Frontier(b) ==
    LET S == {b} \cup dom_tree[b]
    IN  (UNION {Succs(x) : x \in S}) \ (S \ {b})

DefiningBlocks(v) ==
    {b \in AllBlockIds :
        \E n \in 1 .. Len(blocks[b + 1].instrs) : get_dest(blocks[b + 1].instrs[n]) = v}

\* The least set that contains DF(b) for every block of `from` and for every
\* block of itself.
RECURSIVE FrontierClosure(_, _)
FrontierClosure(from, P) ==
    LET more == UNION {Frontier(b) : b \in from \cup P}
    IN  IF more \subseteq P THEN P ELSE FrontierClosure(from, P \cup more)

PhiBlocks(v) == {id \in BlockIds : v \in DOMAIN staged_phi_nodes[id]}

\* C22: insert_phi_nodes stages, for each variable v, a phi in exactly the
\* blocks of the least set P that contains DF(b) for every block b that
\* defines v and for every b in P; every staged phi has op phi, destination
\* v and no args and no labels.
C22_PhisAtIteratedFrontier ==
    PhisStaged =>
        \A v \in VarNames :
            /\ PhiBlocks(v) = FrontierClosure(DefiningBlocks(v), {})
            /\ \A id \in PhiBlocks(v) :
                  staged_phi_nodes[id][v] = new_value("phi", v, <<>>, <<>>)

(***************************************************************************)
(* The renaming of rename_vars, stated on the step from the function with  *)
(* its staged phis to the renamed function.                                *)
(***************************************************************************)
\* rename_vars runs to its end in this step.
Renaming == pc = "phis" /\ pc' = "renamed"

\* The blocks of the subtree of b in the dominator tree, b included.
RECURSIVE Subtree(_)
Subtree(seen) ==
    LET more == (UNION {dom_tree[c] : c \in seen}) \ seen
    IN  IF more = {} THEN seen ELSE Subtree(seen \cup more)

\* The blocks rename_vars_rec is called on.
Renamed == IF numBlocks = 0 THEN {} ELSE Subtree({0})

\* The blocks whose call of rename_vars_rec is running when block b is
\* processed, b included.
ActiveCalls(b) == {c \in Renamed : b \in Subtree({c})}

\* Block c gives v a name before the n-th instruction of block b is
\* renamed (c = b), or at all.
Names(c, v, b, n) ==
    \/ v \in DOMAIN staged_phi_nodes[c]
    \/ \E m \in 1 .. Len(blocks[c + 1].instrs) :
          /\ get_dest(blocks[c + 1].instrs[m]) = v
          /\ c = b => m < n

\* The stack of v is not empty when the n-th instruction of b is renamed.
HasCurrentName(v, b, n) == \E c \in ActiveCalls(b) : Names(c, v, b, n)

NewNames(v) == {v \o "." \o ToString(i) : i \in 1 .. 9}

\* C23: each argument of a renamed instruction is handled on its own: one
\* whose variable has a current name is replaced by a generated name of the
\* variable, one whose variable has none keeps its name and is recorded as a
\* rename failure of the block, whatever the arguments before it.
C23_ArgumentsRenamedIndependently ==
    [][Renaming =>
          \A b \in Renamed :
              \A n \in 1 .. Len(blocks[b + 1].instrs) :
                  \A k \in 1 .. Len(blocks[b + 1].instrs[n].args) :
                      LET v     == blocks[b + 1].instrs[n].args[k]
                          after == blocks'[b + 1].instrs[n].args[k]
                      IN  IF HasCurrentName(v, b, n)
                          THEN after \in NewNames(v)
                          ELSE /\ after = v
                               /\ <<b, v>> \in Range(rename_failures')]_vars

(***************************************************************************)
(* The calls of rename_vars_rec: for each, the builder when the call       *)
(* starts and when it returns.                                             *)
(***************************************************************************)
\* Lines 165-255 of a call: what it does before it recurses.
BeforeRecursion(st, b) ==
    fill_successor_phis(rename_instrs_from(rename_phi_dests(st, b), b, 1),
                        b, successors[b])

RECURSIVE CallsFrom(_, _)
RECURSIVE CallsOfChildren(_, _)
CallsFrom(st, b) ==
    IF st.panicked THEN {}
    ELSE {[block |-> b, entry |-> st, exit |-> rename_vars_rec(st, b)]}
            \cup CallsOfChildren(BeforeRecursion(st, b), sorted(dom_tree[b]))

CallsOfChildren(st, children) ==
    IF children = <<>> THEN {}
    ELSE CallsFrom(st, Head(children))
            \cup CallsOfChildren(rename_vars_rec(st, Head(children)), Tail(children))

\* The calls rename_vars makes on the function with its staged phis.
Calls ==
    IF numBlocks = 0 THEN {}
    ELSE CallsFrom([blocks |-> blocks, phis |-> staged_phi_nodes,
                    stacks |-> rename_vars_stacks, failures |-> rename_failures,
                    panicked |-> FALSE], 0)

\* C24: when a call of rename_vars_rec returns, every variable's stack holds
\* what it held when the call started, and no variable's name counter is
\* lower than it was.
C24_StacksAreUnwound ==
    PhisStaged =>
        \A call \in Calls :
            ~call.exit.panicked =>
                \A v \in VarNames :
                    /\ call.exit.stacks[v].stack = call.entry.stacks[v].stack
                    /\ call.exit.stacks[v].next_name_id >=
                           call.entry.stacks[v].next_name_id

\* A call on a block other than the entry that starts with a name on the
\* stack of x, gives x another name, and returns.
C24_Witness ==
    /\ PhisStaged
    /\ \E call \in Calls :
          /\ call.block # 0
          /\ ~call.exit.panicked
          /\ call.entry.stacks["x"].stack # <<>>
          /\ call.exit.stacks["x"].next_name_id > call.entry.stacks["x"].next_name_id

(***************************************************************************)
(* The blocks finalize_phi_nodes leaves.                                   *)
(***************************************************************************)
\* finalize_phi_nodes runs in this step.
Finalizing == pc = "renamed" /\ pc' = "ssa"

LeadingLabels(instrs) == IF instrs # <<>> /\ is_label(instrs[1]) THEN 1 ELSE 0

\* C25: in every block with staged phis, finalize_phi_nodes keeps a leading
\* label first, puts every staged phi exactly once directly after it (at the
\* front when there is no label), and lets the other instructions of the
\* block follow as they were.
C25_PhisFollowTheLabel ==
    [][Finalizing =>
          \A b \in AllBlockIds :
              LET phis   == staged_phi_nodes[b]
                  n      == Cardinality(DOMAIN phis)
                  before == blocks[b + 1].instrs
                  after  == blocks'[b + 1].instrs
                  lead   == LeadingLabels(before)
              IN  n > 0 =>
                      /\ Len(after) = Len(before) + n
                      /\ SubSeq(after, 1, lead) = SubSeq(before, 1, lead)
                      /\ \A v \in DOMAIN phis :
                            Cardinality({k \in 1 .. Len(after) : after[k] = phis[v]}) = 1
                      /\ {after[lead + k] : k \in 1 .. n} = {phis[v] : v \in DOMAIN phis}
                      /\ SubSeq(after, lead + n + 1, Len(after)) =
                             SubSeq(before, lead + 1, Len(before))]_vars

\* A finalized function with two phis in front of a block without label and
\* a phi directly after the label of a block with one, other instructions
\* following in both.
C25_Witness ==
    /\ Converted
    /\ \E b \in AllBlockIds :
          /\ Len(blocks[b + 1].instrs) > 2
          /\ IsPhi(blocks[b + 1].instrs[1])
          /\ IsPhi(blocks[b + 1].instrs[2])
          /\ ~IsPhi(blocks[b + 1].instrs[Len(blocks[b + 1].instrs)])
    /\ \E b \in AllBlockIds :
          /\ Len(blocks[b + 1].instrs) > 2
          /\ is_label(blocks[b + 1].instrs[1])
          /\ IsPhi(blocks[b + 1].instrs[2])
          /\ ~IsPhi(blocks[b + 1].instrs[Len(blocks[b + 1].instrs)])

(***************************************************************************)
(* The dominator sets of the blocks no path from block 0 reaches.          *)
(***************************************************************************)
\* C26: in the result of find_dominators, every block that is not reachable
\* from block 0, with or without predecessors, has every block id of the
\* function in its set.
C26_UnreachableBlocksKeepAllBlocks ==
    DominatorsFound =>
        \A b \in AllBlockIds \ Reachable : dominators[b] = AllBlockIds

\* A result with an unreachable block without predecessors and an
\* unreachable block all of whose predecessors are unreachable, in a
\* function where the set of a reachable block was refined.
C26_Witness ==
    /\ DominatorsFound
    /\ \E b \in AllBlockIds \ Reachable : Preds(b) = {}
    /\ \E b \in AllBlockIds \ Reachable : Preds(b) # {}
    /\ \E b \in Reachable \ {0} : dominators[b] # AllBlockIds

(***************************************************************************)
(* The block LocalVariableRedeclaration::run leaves behind.                *)
(***************************************************************************)
\* run has returned.
Redeclared == pc = "lvr_done"

\* The write at position d is overwritten: a later instruction of the block
\* writes the same variable, and no instruction after d up to and including
\* that one has the variable as an argument.
Overwritten(instrs, d) ==
    /\ get_dest(instrs[d]) # ""
    /\ \E e \in (d + 1) .. Len(instrs) :
          /\ get_dest(instrs[e]) = get_dest(instrs[d])
          /\ \A m \in (d + 1) .. e : get_dest(instrs[d]) \notin Range(instrs[m].args)

\* The last write to each variable that the block writes.
LastWrites(instrs) ==
    {d \in 1 .. Len(instrs) :
        /\ get_dest(instrs[d]) # ""
        /\ \A e \in (d + 1) .. Len(instrs) : get_dest(instrs[e]) # get_dest(instrs[d])}

CanonicalOpcodes ==
    {"const", "id", "add", "mul", "lt", "print", "jmp", "br", "ret", "phi"}

ShapeOf(op) ==
    IF op = "const" THEN "Const"
    ELSE IF op \in {"id", "add", "mul", "lt", "phi"} THEN "Value"
    ELSE "Effect"

\* The members the shape of the opcode needs are there: a destination for a
\* Const or Value, and for a Const a literal of its type.
WellFormed(instr_v) ==
    /\ ShapeOf(instr_v.op.str) \in {"Const", "Value"} =>
          /\ is_string(instr_v.dest)
          /\ is_null(instr_v.type) \/ instr_v.type = JsonString("int")
    /\ ShapeOf(instr_v.op.str) = "Const" =>
          /\ instr_v.type = JsonString("int")
          /\ is_number(instr_v.value)

\* C29: the loader accepts an instruction object with any of the ten
\* canonical opcodes and builds an instruction of the opcode's shape; an
\* opcode outside the ten is rejected.
C29_CanonicalOpcodesAreAccepted ==
    [][(pc = "bril" /\ Len(loaded_instrs) < Len(json_instrs)) =>
          LET instr_v == json_instrs[Len(loaded_instrs) + 1]
          IN  (~is_string(instr_v.label) /\ is_string(instr_v.op)) =>
                  IF instr_v.op.str \in CanonicalOpcodes
                  THEN WellFormed(instr_v) =>
                          /\ pc' = "bril"
                          /\ Len(loaded_instrs') = Len(loaded_instrs) + 1
                          /\ loaded_instrs'[Len(loaded_instrs')].shape =
                                 ShapeOf(instr_v.op.str)
                          /\ loaded_instrs'[Len(loaded_instrs')].op = instr_v.op.str
                  ELSE pc' = "bril_err"]_vars

(***************************************************************************)
(* The work list of ReachingDefinitions::analyze.                          *)
(***************************************************************************)
\* C30: analyze terminates: each iteration of its loop removes the block it
\* processes from the work list and adds at most the successors of that
\* block, and the work list becomes empty and analyze returns.
C30_ReachingDefinitionsTerminate ==
    /\ (pc = "reaching") ~> (pc = "reaching_done")
    /\ [][(pc = "reaching" /\ work_list # {}) =>
            \E block_id \in work_list :
                /\ \A other \in work_list : block_id <= other
                /\ work_list' \subseteq (work_list \ {block_id}) \cup Succs(block_id)]_vars

====
